---------------------------- MODULE Spec2Model ----------------------------
(***************************************************************************)
(* Model of the gofluent10g host driver: the Trace wrap-aware read, the    *)
(* TX ring refill engine (Generator.writeRingBuff) driven by               *)
(* NetworkTester.StartReplay, and the RX ring drain engine                 *)
(* (Receiver.readRingBuff) driven by the capture goroutine started by      *)
(* NetworkTester.StartCapture and joined by NetworkTester.StopCapture.     *)
(*                                                                         *)
(* All byte quantities are counted in blocks: one block stands for one     *)
(* 64-byte word of the DMA stream.  The ring size and the two transfer     *)
(* granules are scaled down together and keep the relations the driver     *)
(* checks in configHardware (ring size > transfer granule).                *)
(*                                                                         *)
(* Three specifications share the variables:                               *)
(*   SpecTrace  - Trace.read applied to bounded inputs                     *)
(*   SpecTx     - SetTrace / WriteConfig / StartReplay and the TX device   *)
(*   SpecRx     - EnableCapture / WriteConfig / StartCapture / StopCapture,*)
(*                the capture goroutine and the RX device                  *)
(***************************************************************************)
EXTENDS Integers, Sequences, FiniteSets, TLC

(* ------------------------------ bounds -------------------------------- *)

\* ring buffer size in blocks (ringBuffAddrRange + 1)
RingSize == 4

\* largest trace (in blocks) and largest replay count that are bound
MaxTraceSize == 6

MaxRepeats == 3

\* largest replayed total (nRepeats * size) that is bound to a generator
MaxTraceTotal == 6

\* largest number of register accesses that are recorded
MaxAccesses == 4

\* largest number of blocks an RX device writes after a configure
MaxRxBytes == 5

(* ------------------------- program constants -------------------------- *)

\* number of network interfaces
N_INTERFACES == 4

\* the replay and capture specifications run the first NumIfaces of the
\* N_INTERFACES generators and receivers: every loop over nt.gens and
\* nt.recvs treats each element alike, and each has a ring of its own
NumIfaces == N_INTERFACES \div 2

\* expected hardware identification values
HW_CRC16 == 61790

HW_VERSION == 13

\* DRAM memory addresses and ranges of the two banks, and the other sizes of
\* NetworkTester.assignMemory and configHardware, in pages of 4096 bytes
\* (0x100000000 bytes are 1048576 pages; a range is the size minus one)
ADDR_DDR_A == 0

ADDR_DDR_B == 1048576

ADDR_RANGE_DDR_A == 1048575

ADDR_RANGE_DDR_B == 1048575

\* 1024 * 1024 * 1024 bytes
GIGABYTE == 262144

\* 16384 bytes: the granule a ring buffer size has to be a multiple of
RING_GRANULE == 4

\* 64 * 1024 * 1024 bytes: RING_BUFF_WR_TRANSFER_SIZE_MAX and
\* RING_BUFF_RD_TRANSFER_SIZE_MIN in pages
TRANSFER_SIZE_PAGES == 16384

\* timestamp insertion/extraction modes
TimestampModeDisabled == 0

TimestampModeFixedPos == 1

TimestampModeHeader == 2

\* clock cycles between two timestamp counter increments (default value)
TIMESTAMP_CNTR_CYCLES_PER_TICK_DEFAULT == 1

\* maximum size of a ring buffer write, in blocks (scaled)
RING_BUFF_WR_TRANSFER_SIZE_MAX == 3

\* minimum size of a ring buffer read, in blocks (scaled)
RING_BUFF_RD_TRANSFER_SIZE_MIN == 2

\* default host memory size for capture data: room for all that is captured
CAPTURE_HOST_MEM_SIZE_DEFAULT == MaxRxBytes

Ifaces == 0 .. (NumIfaces - 1)

NoTrace == [size |-> 0, nRepeats |-> 0, data |-> << >>]

(* ------------------------------ Trace --------------------------------- *)

\* the i-th byte (block) of a trace is i: all bytes of a trace differ
Iota(n) == [k \in 1 .. n |-> k - 1]

\* TraceCreateFromFile / TraceCreateFromData: the data slice holds exactly
\* size bytes (make([]byte, size): capacity = length)
TraceCreate(size, nRepeats) ==
    [size |-> size, nRepeats |-> nRepeats, data |-> Iota(size)]

\* Trace.GetSize: replayed size
GetSize(tr) == tr.nRepeats * tr.size

\* a Go slice expression s[lo:hi] on a slice of capacity = length Len(s):
\* out of range panics
SliceOk(s, lo, hi) == lo <= hi /\ hi <= Len(s)

Slice(s, lo, hi) == SubSeq(s, lo + 1, hi)

\* the guard of Trace.read that selects the wrap-around branch
ReadWraps(tr, addr, size) ==
    (addr \div tr.size) # ((addr + size - 1) \div tr.size)

\* outcome of a call: st is "ok", "panic" (Go runtime panic: slice bounds out
\* of range) or "fatal" (Log(LOG_ERR, ...) ends the process)
Outcome(st, data) == [st |-> st, data |-> data]

\* Trace.read
TraceRead(tr, addr, size) ==
    LET off == addr % tr.size
        size1 == tr.size - off
        size2 == size - size1
    IN  IF addr > GetSize(tr) THEN Outcome("fatal", << >>)
        ELSE IF ReadWraps(tr, addr, size)
        THEN IF ~SliceOk(tr.data, off, off + size1) \/ ~SliceOk(tr.data, 0, size2)
             THEN Outcome("panic", << >>)
             ELSE Outcome("ok", Slice(tr.data, off, off + size1) \o Slice(tr.data, 0, size2))
        ELSE IF ~SliceOk(tr.data, off, off + size)
             THEN Outcome("panic", << >>)
             ELSE Outcome("ok", Slice(tr.data, off, off + size))

\* the traces that can be bound to a generator
Traces ==
    { TraceCreate(s, r) : <<s, r>> \in
        { p \in (1 .. MaxTraceSize) \X (1 .. MaxRepeats) : p[1] * p[2] <= MaxTraceTotal } }

(* ----------------------------- variables ------------------------------ *)

VARIABLES
    \* SpecTasks: the goroutines of StartCapture and the DMA channels
    taskPc,             \* position of each capture goroutine ("none": no such)
    fgTask,             \* what the foreground is doing
    stopCapture,        \* nt.stopCapture: "nil" or "chan"
    syncCapture,        \* counter of the wait group nt.syncCapture
    dmaIssued,          \* who has issued transfers on which DMA channel
    \* SpecTrace: one call of Trace.read
    rdTrace, rdAddr, rdSize, rdResult,
    \* SpecMask: Generators.startRateCtrl over all N_INTERFACES generators
    genBound,           \* gen.trace != nil, per generator
    maskPc,             \* "idle", or "written" after startRateCtrl
    regMask,            \* the 32-bit value last written to RATE_CTRL_ACTIVE
    \* SpecErr: NetworkTester.CheckErrors
    errResult,          \* the error CheckErrors returned (kind "none": no call)
    \* SpecIdent: NetworkTesterCreate
    regIdent,           \* NT_IDENT IDENT, as its high and low 16 bits
    ntPc,               \* "init", "created", or "fatal"
    regAccesses,        \* the registers read or written so far, in order
    \* SpecMem: NetworkTester.assignMemory over all N_INTERFACES interfaces
    recvEnabled,        \* recv.captureEnable, per receiver
    genRingBuffAddr,    \* gen.ringBuffAddr
    genRingBuffAddrRange,  \* gen.ringBuffAddrRange
    recvRingBuffAddr,   \* recv.ringBuffAddr
    recvRingBuffAddrRange, \* recv.ringBuffAddrRange
    captureMaxLen,      \* recv.captureMaxLen, per receiver
    \* SpecCodec: Capture.GetPackets
    capture,            \* a Capture: data, size, posWr, discard,
                        \* tickPeriodLatency (in clock cycles), maxLenCapture
    injected,           \* the packets the capture core has encoded into it
    pkts,               \* what GetPackets came to ("none": not called)
    memPc,              \* "changed", "configured" after WriteConfig,
                        \* "reconfigured" after a second one in succession,
                        \* "ran" after a replay/capture, "fatal"
    timestamp,          \* nt.timestamp: cyclesPerTick, mode, pos, width
    hostPtrs,           \* gen.ringBuffWrPtr, gen.nBytesTransfered,
                        \* recv.ringBuffRdPtr, recv.capture.size, per interface
    cfgLog,             \* the register writes of the last WriteConfig, in order
    fatalMsg,           \* the call that ended in Log(LOG_ERR, ...) (kind "none":
                        \* no such call), with its argument or core id
    \* Generator fields, per interface
    trace,              \* gen.trace (NoTrace = nil)
    nBytesTransfered,   \* gen.nBytesTransfered
    ringBuffWrPtr,      \* gen.ringBuffWrPtr
    \* NetworkTester fields
    checkErrors,        \* nt.checkErrors
    \* registers of the replay cores and of the control core
    regGenAddrWr,       \* NT_GEN_REPLAY[i] CTRL_ADDR_WR (host-owned)
    regGenAddrRd,       \* NT_GEN_REPLAY[i] CTRL_ADDR_RD (device-owned)
    regGenTraceSize,    \* NT_GEN_REPLAY[i] CTRL_TRACE_SIZE_HI/LO
    regGenStart,        \* NT_GEN_REPLAY[i] CTRL_START, until the core is reset
    regRateCtrlActive,  \* NT_CTRL RATE_CTRL_ACTIVE: the set of bits that are 1
    regRateCtrlStatus,  \* NT_GEN_RATE_CTRL[i] STATUS bit 0 (timing error)
    devConsumed,        \* bytes the replay core has read from its TX ring
    \* the foreground caller: position in WriteConfig / StartReplay
    fgPc,
    genIdx,             \* loop index of the range loops over nt.gens
    wrXfer,             \* transferSize of the H2C DMA in flight (0: none)
    nTransferedBytes,   \* the sum writeRingBuffs is accumulating
    lastRet,            \* value returned by the last writeRingBuff, per generator
    \* Receiver fields, per interface
    captureEnable,      \* recv.captureEnable
    captureDiscard,     \* recv.captureDiscard
    captureHostMemSize, \* recv.captureHostMemSize
    ringBuffRdPtr,      \* recv.ringBuffRdPtr
    \* Capture fields of recv.capture, per interface
    capData,            \* capture.data (-1: a byte never written)
    capPosWr,           \* capture.posWr
    capSize,            \* capture.size
    \* registers of the capture cores
    regRecvActive,      \* NT_RECV_CAPTURE[i] CTRL_ACTIVE (host-owned)
    regRecvStatusActive,\* NT_RECV_CAPTURE[i] STATUS_ACTIVE (device-owned)
    regRecvAddrWr,      \* NT_RECV_CAPTURE[i] CTRL_ADDR_WR (device-owned)
    regRecvAddrRd,      \* NT_RECV_CAPTURE[i] CTRL_ADDR_RD (host-owned)
    regRecvErrs,        \* NT_RECV_CAPTURE[i] STATUS_ERRS
    devWritten,         \* bytes the capture core has written since the reset
    \* the capture goroutine
    capPc,              \* position in NetworkTester.capture ("none": not running)
    capIdx,             \* loop index of the range loops over nt.recvs
    rdXfer,             \* transferSize of the C2H DMA just done (0: none)
    nBytesRead,         \* value returned by the last readRingBuff(true), per
                        \* receiver (-1: none since StartCapture)
    alMode,             \* byte-granular ring session: "idle", "tx" (replay),
                        \* "rx" (capture running), "drain" (after deassert)
    alBase,             \* ringBuffAddr of the engine, in 8-byte words
    alDevStep,          \* words by which the device moves its pointer
    alHostPtr,          \* gen.ringBuffWrPtr / recv.ringBuffRdPtr, in words
    alDevPtr,           \* ADDR_RD of the replay core / ADDR_WR of the
                        \* capture core, in words
    alLeft,             \* traceSizeOutStanding, in words
    alDma,              \* the DMA transfer issued last: <<channel, device
                        \* address, length>> in words (<< >>: none yet)
    lfEnable,           \* recv.captureEnable, per receiver
    lfCapture,          \* recv.capture, per receiver: "nil" or "capture"
    lfActive,           \* CTRL_ACTIVE of the capture core, per receiver
    lfData,             \* the RX ring holds data (ADDR_WR # read pointer)
    lfPc,               \* position of the capture goroutine ("idle": none)
    lfIdx,              \* loop index of the goroutine's loops over nt.recvs
    lfFg                \* the foreground: "idle", in StopCapture ("send",
                        \* "wait"), or ended by a panic

traceVars == <<rdTrace, rdAddr, rdSize, rdResult>>
maskVars == <<genBound, maskPc, regMask>>
identVars == <<regIdent, ntPc, regAccesses>>
memVars == <<recvEnabled, genRingBuffAddr, genRingBuffAddrRange,
             recvRingBuffAddr, recvRingBuffAddrRange, captureMaxLen, memPc,
             timestamp, hostPtrs, cfgLog, fatalMsg>>
codecVars == <<capture, injected, pkts>>
taskVars == <<taskPc, fgTask, stopCapture, syncCapture, dmaIssued>>
alignVars == <<alMode, alBase, alDevStep, alHostPtr, alDevPtr, alLeft, alDma>>
lifeVars == <<lfEnable, lfCapture, lfActive, lfData, lfPc, lfIdx, lfFg>>
extVars == <<alignVars, lifeVars>>
auxVars == <<maskVars, errResult, identVars, memVars, codecVars, taskVars,
             extVars>>
unitVars == <<traceVars, auxVars>>

genVars == <<trace, nBytesTransfered, ringBuffWrPtr>>

txRegVars == <<regGenAddrWr, regGenAddrRd, regGenTraceSize, regGenStart,
               regRateCtrlActive, regRateCtrlStatus, devConsumed>>

fgVars == <<fgPc, genIdx, wrXfer, nTransferedBytes, lastRet, checkErrors>>

txVars == <<genVars, txRegVars, fgVars>>

recvVars == <<captureEnable, captureDiscard, captureHostMemSize, ringBuffRdPtr,
              capData, capPosWr, capSize>>

rxRegVars == <<regRecvActive, regRecvStatusActive, regRecvAddrWr, regRecvAddrRd,
               regRecvErrs, devWritten>>

capVars == <<capPc, capIdx, rdXfer, nBytesRead>>

rxVars == <<recvVars, rxRegVars, capVars>>

vars == <<unitVars, txVars, rxVars>>

\* the state NetworkTesterCreate leaves behind for the generators
TxCreated ==
    /\ trace = [g \in Ifaces |-> NoTrace]
    /\ nBytesTransfered = [g \in Ifaces |-> 0]
    /\ ringBuffWrPtr = [g \in Ifaces |-> 0]
    /\ checkErrors = TRUE
    /\ regGenAddrWr = [g \in Ifaces |-> 0]
    /\ regGenAddrRd = [g \in Ifaces |-> 0]
    /\ regGenTraceSize = [g \in Ifaces |-> 0]
    /\ regGenStart = [g \in Ifaces |-> 0]
    /\ regRateCtrlActive = {}
    /\ regRateCtrlStatus = [g \in Ifaces |-> 0]
    /\ devConsumed = [g \in Ifaces |-> 0]
    /\ fgPc = "created"
    /\ genIdx = 0
    /\ wrXfer = 0
    /\ nTransferedBytes = 0
    /\ lastRet = [g \in Ifaces |-> 0]

\* the state NetworkTesterCreate leaves behind for the receivers
RxCreated ==
    /\ captureEnable = [i \in Ifaces |-> FALSE]
    /\ captureDiscard = [i \in Ifaces |-> FALSE]
    /\ captureHostMemSize = [i \in Ifaces |-> CAPTURE_HOST_MEM_SIZE_DEFAULT]
    /\ ringBuffRdPtr = [i \in Ifaces |-> 0]
    /\ capData = [i \in Ifaces |-> << >>]
    /\ capPosWr = [i \in Ifaces |-> 0]
    /\ capSize = [i \in Ifaces |-> 0]
    /\ regRecvActive = [i \in Ifaces |-> 0]
    /\ regRecvStatusActive = [i \in Ifaces |-> 0]
    /\ regRecvAddrWr = [i \in Ifaces |-> 0]
    /\ regRecvAddrRd = [i \in Ifaces |-> 0]
    /\ regRecvErrs = [i \in Ifaces |-> 0]
    /\ devWritten = [i \in Ifaces |-> 0]
    /\ capPc = "none"
    /\ capIdx = 0
    /\ rdXfer = 0
    /\ nBytesRead = [i \in Ifaces |-> -1]

\* no Trace.read call is being examined
TraceIdle ==
    /\ rdTrace = NoTrace
    /\ rdAddr = 0
    /\ rdSize = 0
    /\ rdResult = Outcome("none", << >>)

\* all generators of the tester, by gen.id
AllIfaces == 0 .. (N_INTERFACES - 1)

\* no call of startRateCtrl on the full set of generators is modelled
MaskIdle ==
    /\ genBound = [g \in AllIfaces |-> FALSE]
    /\ maskPc = "idle"
    /\ regMask = 0

\* an error value: kind "nil" is Go's nil, kind "none" stands for no call
Err(kind, id) == [kind |-> kind, id |-> id]

\* the tester has been constructed on matching hardware; its register
\* accesses are not recorded
IdentIdle ==
    /\ regIdent = [hi |-> HW_CRC16, lo |-> HW_VERSION]
    /\ ntPc = "created"
    /\ regAccesses = << >>

\* the memory-region fields NetworkTesterCreate leaves behind (zero values)
MemIdle ==
    /\ recvEnabled = [i \in AllIfaces |-> FALSE]
    /\ genRingBuffAddr = [g \in AllIfaces |-> 0]
    /\ genRingBuffAddrRange = [g \in AllIfaces |-> 0]
    /\ recvRingBuffAddr = [i \in AllIfaces |-> 0]
    /\ recvRingBuffAddrRange = [i \in AllIfaces |-> 0]
    /\ memPc = "changed"
    /\ timestamp = [cyclesPerTick |-> TIMESTAMP_CNTR_CYCLES_PER_TICK_DEFAULT,
                    mode |-> TimestampModeDisabled, pos |-> 0, width |-> 0]
    /\ hostPtrs = [i \in AllIfaces |->
                      [ringBuffWrPtr |-> 0, nBytesTransfered |-> 0,
                       ringBuffRdPtr |-> 0, captureSize |-> 0]]
    /\ cfgLog = << >>
    /\ fatalMsg = [kind |-> "none", id |-> -1]
    /\ captureMaxLen = [i \in AllIfaces |-> 0]

\* most capture goroutines at a time
MaxTasks == 2

Tasks == 1 .. MaxTasks

\* no capture goroutine has been launched
TaskIdle ==
    /\ taskPc = [t \in Tasks |-> "none"]
    /\ fgTask = "idle"
    /\ stopCapture = "nil"
    /\ syncCapture = 0
    /\ dmaIssued = {}

\* no byte-granular ring session runs
AlignIdle ==
    /\ alMode = "idle"
    /\ alBase = 0
    /\ alDevStep = 0
    /\ alHostPtr = 0
    /\ alDevPtr = 0
    /\ alLeft = 0
    /\ alDma = << >>

\* the receivers as NewNetworkTester leaves them: capture disabled, no
\* Capture, no capture goroutine
LifeIdle ==
    /\ lfEnable = [i \in Ifaces |-> FALSE]
    /\ lfCapture = [i \in Ifaces |-> "nil"]
    /\ lfActive = [i \in Ifaces |-> FALSE]
    /\ lfData = [i \in Ifaces |-> FALSE]
    /\ lfPc = "idle"
    /\ lfIdx = 0
    /\ lfFg = "idle"

ExtIdle ==
    /\ AlignIdle
    /\ LifeIdle

\* no Capture is looked at
CodecIdle ==
    /\ capture = [data |-> << >>, size |-> 0, posWr |-> 0, discard |-> FALSE,
                  tickPeriodLatency |-> 1, maxLenCapture |-> 0]
    /\ injected = << >>
    /\ pkts = [end |-> "none", pkts |-> << >>]

AuxIdle ==
    /\ MaskIdle
    /\ errResult = Err("none", -1)
    /\ IdentIdle
    /\ MemIdle
    /\ CodecIdle
    /\ TaskIdle
    /\ ExtIdle

(* ------------------------------ SpecTrace ----------------------------- *)

InitTrace ==
    /\ rdTrace \in { TraceCreate(s, r) : <<s, r>> \in (1 .. MaxTraceSize) \X (1 .. MaxRepeats) }
    /\ rdAddr \in 0 .. (MaxTraceSize * MaxRepeats)
    /\ rdSize \in 1 .. (MaxTraceSize * MaxRepeats)
    /\ rdAddr + rdSize <= GetSize(rdTrace)
    /\ rdResult = Outcome("none", << >>)
    /\ AuxIdle
    /\ TxCreated
    /\ RxCreated

\* gen.trace.read(addr, size)
DoTraceRead ==
    /\ rdResult.st = "none"
    /\ rdResult' = TraceRead(rdTrace, rdAddr, rdSize)
    /\ UNCHANGED <<rdTrace, rdAddr, rdSize, auxVars, txVars, rxVars>>

NextTrace == DoTraceRead

SpecTrace == InitTrace /\ [][NextTrace]_vars

\* the bytes a wrap-aware read has to return: modulo indexing into the data
ModuloRead(tr, addr, size) ==
    [k \in 1 .. size |-> tr.data[((addr + k - 1) % tr.size) + 1]]

\* C5: for every trace, nRepeats >= 1 and (addr, n) with n >= 1 and
\* addr + n <= nRepeats * L, Trace.read(addr, n) returns the n bytes
\* data[(addr + k) mod L], also when the read spans more than one wrap-around
C5_ReadIsModuloRead ==
    rdResult.st # "none" =>
        rdResult = Outcome("ok", ModuloRead(rdTrace, rdAddr, rdSize))


(* ------------------------------ SpecIdent ----------------------------- *)

\* values a 16-bit half of the IDENT register is read with
IdentHalves == {0, HW_VERSION, HW_VERSION + 1, HW_CRC16 - 1, HW_CRC16, 65535}

\* registers an operation of the constructed tester reads or writes
OtherRegisters == {"NT_CTRL_RST", "NT_CTRL_RATE_CTRL_ACTIVE",
                   "NT_RECV_CAPTURE_CTRL_ACTIVE", "NT_GEN_REPLAY_STATUS"}

\* checkVersion that compares the CRC16 only
VersionMatchesCrcOnly(ident) == ident.hi = HW_CRC16

\* NetworkTester.checkVersion: hwCRC16 = (ident >> 16) & 0xFFFF and
\* hwVersion = ident & 0xFFFF both have the expected value
VersionMatches(ident) == ident.hi = HW_CRC16 /\ ident.lo = HW_VERSION

\* NetworkTesterCreate. opened: the BAR and the two DMA devices could be
\* opened (if not, Log(LOG_ERR, ...) ends the process before checkVersion)
NetworkTesterCreate(opened) ==
    /\ ntPc = "init"
    /\ IF ~opened
       THEN ntPc' = "fatal" /\ UNCHANGED regAccesses
       ELSE /\ regAccesses' = Append(regAccesses, "NT_IDENT")
            /\ ntPc' = IF VersionMatches(regIdent) THEN "created" ELSE "fatal"
    /\ UNCHANGED <<regIdent, maskVars, errResult, memVars,
                   extVars, taskVars, codecVars, traceVars, txVars, rxVars>>

\* an operation of the constructed tester accesses register r
TesterAccess(r) ==
    /\ ntPc = "created"
    /\ Len(regAccesses) < MaxAccesses
    /\ regAccesses' = Append(regAccesses, r)
    /\ UNCHANGED <<regIdent, ntPc, maskVars, errResult, memVars,
                   extVars, taskVars, codecVars, traceVars, txVars, rxVars>>

InitIdent ==
    /\ TraceIdle
    /\ MaskIdle
    /\ CodecIdle
    /\ TaskIdle
    /\ ExtIdle
    /\ errResult = Err("none", -1)
    /\ regIdent \in [hi : IdentHalves, lo : IdentHalves]
    /\ ntPc = "init"
    /\ regAccesses = << >>
    /\ MemIdle
    /\ TxCreated
    /\ RxCreated

NextIdent ==
    \/ \E opened \in BOOLEAN : NetworkTesterCreate(opened)
    \/ \E r \in OtherRegisters : TesterAccess(r)

SpecIdent == InitIdent /\ [][NextIdent]_vars

\* C17: the read of IDENT is the first register access of the tester; if the
\* high 16 bits differ from the expected CRC16 or the low 16 bits from the
\* expected version, construction fails and no other register is ever read or
\* written; if both match, construction succeeds
C17_IdentCheckedFirst ==
    /\ regAccesses # << >> => regAccesses[1] = "NT_IDENT"
    /\ regAccesses # << >> =>
            IF regIdent.hi # HW_CRC16 \/ regIdent.lo # HW_VERSION
            THEN ntPc = "fatal" /\ regAccesses = <<"NT_IDENT">>
            ELSE ntPc = "created"

\* C17 witness: construction has failed on a version mismatch with a matching
\* CRC16, after the one read of IDENT
C17_Witness ==
    /\ ntPc = "fatal"
    /\ regAccesses = <<"NT_IDENT">>
    /\ regIdent.hi = HW_CRC16
    /\ regIdent.lo = HW_VERSION + 1

(* ------------------------------ SpecMem ------------------------------- *)

\* a memory region
Region(addr, range) == [addr |-> addr, range |-> range]

\* position of id in the descending list of the ids in S
RankDescending(S, id) == Cardinality({x \in S : x > id})

\* position of id in the ascending list of the ids in S
\* (getIfIdsConfigured appends the ids in the order of nt.gens / nt.recvs)
Rank(S, id) == Cardinality({x \in S : x < id})

\* assignMemory with only generators or only receivers configured: the
\* region of the k-th of n configured cores
OnlyKindRegion(n, k) ==
    LET halfA == (ADDR_RANGE_DDR_A + 1) \div 2
        halfB == (ADDR_RANGE_DDR_B + 1) \div 2
    IN  IF n = 1 THEN Region(ADDR_DDR_A, ADDR_RANGE_DDR_A)
        ELSE IF n = 2
        THEN IF k = 0 THEN Region(ADDR_DDR_A, ADDR_RANGE_DDR_A)
             ELSE Region(ADDR_DDR_B, ADDR_RANGE_DDR_B)
        ELSE IF n = 3
        THEN IF k = 0 THEN Region(ADDR_DDR_A, halfA - 1)
             ELSE IF k = 1 THEN Region(ADDR_DDR_A + halfA, halfA - 1)
             ELSE Region(ADDR_DDR_B, ADDR_RANGE_DDR_B)
        ELSE IF k = 0 THEN Region(ADDR_DDR_A, halfA - 1)
             ELSE IF k = 1 THEN Region(ADDR_DDR_A + halfA, halfA - 1)
             ELSE IF k = 2 THEN Region(ADDR_DDR_B, halfB - 1)
             ELSE Region(ADDR_DDR_B + halfB, halfB - 1)

\* a bank for the receivers that is the bank of the generators
RecvBankOfGens == ADDR_DDR_A

\* assignMemory, generating and capturing: the bank the receivers' regions
\* of 1 GByte are placed in
RecvBank == ADDR_DDR_B

\* assignMemory, generating and capturing: the region of the k-th generator
MixedGenRegion(nGens, nRecvs, k) ==
    IF nGens = 1 /\ nRecvs = 1 THEN Region(ADDR_DDR_A, ADDR_RANGE_DDR_A)
    ELSE Region(ADDR_DDR_A + k * GIGABYTE, GIGABYTE - 1)

\* assignMemory, generating and capturing: the region of the k-th receiver
MixedRecvRegion(nGens, nRecvs, k) ==
    IF nGens = 1 /\ nRecvs = 1 THEN Region(ADDR_DDR_B, ADDR_RANGE_DDR_B)
    ELSE Region(RecvBank + k * GIGABYTE, GIGABYTE - 1)

\* assignMemory: the region of generator g afterwards, for the configuration
\* (genB, recvE) and the region prior the generator had before
GenRegionAssigned(genB, recvE, prior, g) ==
    LET genIds == {x \in AllIfaces : genB[x]}
        recvIds == {x \in AllIfaces : recvE[x]}
        nGens == Cardinality(genIds)
        nRecvs == Cardinality(recvIds)
    IN  IF ~genB[g] THEN prior
        ELSE IF nRecvs = 0 THEN OnlyKindRegion(nGens, Rank(genIds, g))
        ELSE MixedGenRegion(nGens, nRecvs, Rank(genIds, g))

\* assignMemory: the region of receiver i afterwards
RecvRegionAssigned(genB, recvE, prior, i) ==
    LET genIds == {x \in AllIfaces : genB[x]}
        recvIds == {x \in AllIfaces : recvE[x]}
        nGens == Cardinality(genIds)
        nRecvs == Cardinality(recvIds)
    IN  IF ~recvE[i] THEN prior
        ELSE IF nGens = 0 THEN OnlyKindRegion(nRecvs, Rank(recvIds, i))
        ELSE MixedRecvRegion(nGens, nRecvs, Rank(recvIds, i))

\* Generator.configHardware / Receiver.configHardware: the checks of the
\* ring buffer size that end in Log(LOG_ERR, ...)
RingSizeAccepted(range) ==
    LET ringBuffSize == range + 1
    IN  /\ ringBuffSize > RING_GRANULE
        /\ ringBuffSize % RING_GRANULE = 0
        /\ TRANSFER_SIZE_PAGES % RING_GRANULE = 0
        /\ ringBuffSize > TRANSFER_SIZE_PAGES

\* pcieBAR.Write to register reg of core id
Write(reg, id, value) == <<reg, id, value>>

\* one part of WriteConfig: whether it got through without Log(LOG_ERR, ...),
\* the registers it wrote (up to that call, if not), and the failing call
ConfigStep(ok, writes, kind, id) ==
    [ok |-> ok, writes |-> writes, err |-> [kind |-> kind, id |-> id]]

\* a pointer register written with the pointer's value before its reset
PtrWrittenBeforeReset(old) == old

\* configHardware: "ptr = 0x0" and then "Write(..., ptr)": the value written
PtrWrittenAfterReset(old) == 0

\* NetworkTester.resetHardware: the receivers' CTRL_ACTIVE from receiver i on
RECURSIVE RecvResetWritesFrom(_)
RecvResetWritesFrom(i) ==
    IF i >= N_INTERFACES THEN << >>
    ELSE <<Write("NT_RECV_CAPTURE_CTRL_ACTIVE", i, 0)>> \o RecvResetWritesFrom(i + 1)

\* NetworkTester.resetHardware (generators and interfaces: nothing to do)
ResetStep ==
    ConfigStep(TRUE,
        RecvResetWritesFrom(0)
            \o <<Write("NT_CTRL_RATE_CTRL_ACTIVE", 0, 0),
                 Write("NT_CTRL_RST", 0, 1), Write("NT_CTRL_RST", 0, 0)>>,
        "none", -1)

\* Generator.configHardware of generator g with region r; the trace bound to
\* generator g has g + 1 granules
GenConfigStep(g, bound, r, wrPtr) ==
    IF ~bound THEN ConfigStep(TRUE, << >>, "none", -1)
    ELSE IF ~RingSizeAccepted(r.range)
    THEN ConfigStep(FALSE, << >>, "Generator.configHardware", g)
    ELSE ConfigStep(TRUE,
             <<Write("NT_GEN_REPLAY_CTRL_MEM_ADDR_HI", g, r.addr \div (2 ^ 20)),
               Write("NT_GEN_REPLAY_CTRL_MEM_ADDR_LO", g, r.addr % (2 ^ 20)),
               Write("NT_GEN_REPLAY_CTRL_MEM_RANGE", g, r.range),
               Write("NT_GEN_REPLAY_CTRL_ADDR_WR", g, PtrWrittenAfterReset(wrPtr)),
               Write("NT_GEN_REPLAY_CTRL_TRACE_SIZE_HI", g, 0),
               Write("NT_GEN_REPLAY_CTRL_TRACE_SIZE_LO", g, (g + 1) * RING_GRANULE)>>,
             "none", -1)

\* Receiver.configHardware of receiver i with region r (no destination MAC
\* filter, as NetworkTesterCreate leaves it); uint32(recv.captureMaxLen) is
\* the value itself for the values from 0 on
RecvConfigStep(i, enabled, r, rdPtr) ==
    IF ~enabled THEN ConfigStep(TRUE, << >>, "none", -1)
    ELSE IF ~RingSizeAccepted(r.range)
    THEN ConfigStep(FALSE, << >>, "Receiver.configHardware", i)
    ELSE ConfigStep(TRUE,
             <<Write("NT_RECV_CAPTURE_CTRL_MEM_ADDR_HI", i, r.addr \div (2 ^ 20)),
               Write("NT_RECV_CAPTURE_CTRL_MEM_ADDR_LO", i, r.addr % (2 ^ 20)),
               Write("NT_RECV_CAPTURE_CTRL_MEM_RANGE", i, r.range),
               Write("NT_RECV_CAPTURE_CTRL_ADDR_RD", i, PtrWrittenAfterReset(rdPtr)),
               Write("NT_RECV_CAPTURE_CTRL_MAX_LEN_CAPTURE", i, captureMaxLen[i]),
               Write("NT_RECV_FILTER_MAC_CTRL_ADDR_MASK_DST_HI", i, 0),
               Write("NT_RECV_FILTER_MAC_CTRL_ADDR_MASK_DST_LO", i, 0)>>,
             "none", -1)

\* a limit of 6 for both timestamp widths
MaxPosInWordSame(width) == 6

\* timestamp.configHardware: the largest pos % 8 at which a timestamp of the
\* given width does not spread across two 8 byte data words
MaxPosInWord(width) == IF width = 16 THEN 6 ELSE 5

\* timestamp.configHardware
TimestampConfigStep(ts) ==
    LET tail == <<Write("NT_TIMESTAMP_MODE", 0, ts.mode),
                  Write("NT_TIMESTAMP_CYCLES_PER_TICK", 0, ts.cyclesPerTick)>>
        zeroed == <<Write("NT_TIMESTAMP_POS", 0, 0),
                    Write("NT_TIMESTAMP_WIDTH", 0, 0)>>
    IN  IF ts.mode = TimestampModeFixedPos
        THEN IF ts.width \notin {16, 24} \/ ts.pos % 8 > MaxPosInWord(ts.width)
             THEN ConfigStep(FALSE, << >>, "timestamp.configHardware", ts.pos)
             ELSE ConfigStep(TRUE,
                      <<Write("NT_TIMESTAMP_WIDTH", 0, IF ts.width = 16 THEN 0 ELSE 1),
                        Write("NT_TIMESTAMP_POS", 0, ts.pos)>> \o tail,
                      "none", -1)
        ELSE IF ts.mode \in {TimestampModeHeader, TimestampModeDisabled}
        THEN ConfigStep(TRUE, zeroed \o tail, "none", -1)
        ELSE ConfigStep(FALSE, << >>, "timestamp.configHardware", ts.mode)

\* the parts of WriteConfig from the i-th on, as far as they get
RECURSIVE RunSteps(_, _)
RunSteps(steps, i) ==
    IF i > Len(steps) THEN ConfigStep(TRUE, << >>, "none", -1)
    ELSE IF ~steps[i].ok THEN steps[i]
    ELSE LET rest == RunSteps(steps, i + 1)
         IN  [rest EXCEPT !.writes = steps[i].writes \o rest.writes]

\* Generator.SetTrace on generator g: binds a trace (b) or nil (~b)
MemSetTrace(g, b) ==
    /\ memPc = "changed"
    /\ genBound' = [genBound EXCEPT ![g] = b]
    /\ UNCHANGED <<memVars, maskPc, regMask, errResult, identVars, extVars, taskVars, codecVars, traceVars,
                   txVars, rxVars>>

\* Receiver.EnableCapture on receiver i
MemEnableCapture(i, b) ==
    /\ memPc = "changed"
    /\ recvEnabled' = [recvEnabled EXCEPT ![i] = b]
    /\ UNCHANGED <<genRingBuffAddr, genRingBuffAddrRange, recvRingBuffAddr,
                   recvRingBuffAddrRange, captureMaxLen, memPc, timestamp,
                   hostPtrs, cfgLog,
                   fatalMsg, maskVars, errResult, identVars, extVars, taskVars, codecVars, traceVars,
                   txVars, rxVars>>

\* NetworkTester.WriteConfig: resetHardware, assignMemory, configHardware
MemWriteConfig ==
    LET genNew == [g \in AllIfaces |->
                     GenRegionAssigned(genBound, recvEnabled,
                         Region(genRingBuffAddr[g], genRingBuffAddrRange[g]), g)]
        recvNew == [i \in AllIfaces |->
                     RecvRegionAssigned(genBound, recvEnabled,
                         Region(recvRingBuffAddr[i], recvRingBuffAddrRange[i]), i)]
        steps == <<ResetStep>>
                 \o [k \in 1 .. N_INTERFACES |->
                       GenConfigStep(k - 1, genBound[k - 1], genNew[k - 1],
                                     hostPtrs[k - 1].ringBuffWrPtr)]
                 \o [k \in 1 .. N_INTERFACES |->
                       RecvConfigStep(k - 1, recvEnabled[k - 1], recvNew[k - 1],
                                      hostPtrs[k - 1].ringBuffRdPtr)]
                 \o <<TimestampConfigStep(timestamp)>>
        run == RunSteps(steps, 1)
    IN  /\ memPc \in {"changed", "configured", "ran"}
        /\ genRingBuffAddr' = [g \in AllIfaces |-> genNew[g].addr]
        /\ genRingBuffAddrRange' = [g \in AllIfaces |-> genNew[g].range]
        /\ recvRingBuffAddr' = [i \in AllIfaces |-> recvNew[i].addr]
        /\ recvRingBuffAddrRange' = [i \in AllIfaces |-> recvNew[i].range]
        /\ cfgLog' = run.writes
        /\ fatalMsg' = run.err
        /\ hostPtrs' =
             IF ~run.ok THEN hostPtrs
             ELSE [i \in AllIfaces |->
                     [ringBuffWrPtr |->
                          IF genBound[i] THEN 0 ELSE hostPtrs[i].ringBuffWrPtr,
                      nBytesTransfered |->
                          IF genBound[i] THEN 0 ELSE hostPtrs[i].nBytesTransfered,
                      ringBuffRdPtr |->
                          IF recvEnabled[i] THEN 0 ELSE hostPtrs[i].ringBuffRdPtr,
                      captureSize |->
                          IF recvEnabled[i] THEN 0 ELSE hostPtrs[i].captureSize]]
        /\ memPc' = IF ~run.ok THEN "fatal"
                    ELSE IF memPc = "configured" THEN "reconfigured"
                    ELSE "configured"
        /\ UNCHANGED <<recvEnabled, captureMaxLen, timestamp, maskVars,
                       errResult, identVars,
                       extVars, taskVars, codecVars, traceVars, txVars, rxVars>>

\* the tester before a WriteConfig: any traces bound and captures enabled,
\* and in the region fields what an earlier WriteConfig, under any earlier
\* configuration (none configured: no earlier WriteConfig), had left in them
InitMem ==
    /\ TraceIdle
    /\ MaskIdle
    /\ CodecIdle
    /\ TaskIdle
    /\ ExtIdle
    /\ errResult = Err("none", -1)
    /\ IdentIdle
    /\ TxCreated
    /\ RxCreated
    /\ recvEnabled \in [AllIfaces -> BOOLEAN]
    /\ memPc = "changed"
    /\ timestamp = [cyclesPerTick |-> TIMESTAMP_CNTR_CYCLES_PER_TICK_DEFAULT,
                    mode |-> TimestampModeDisabled, pos |-> 0, width |-> 0]
    /\ hostPtrs = [i \in AllIfaces |->
                      [ringBuffWrPtr |-> 0, nBytesTransfered |-> 0,
                       ringBuffRdPtr |-> 0, captureSize |-> 0]]
    /\ cfgLog = << >>
    /\ fatalMsg = [kind |-> "none", id |-> -1]
    /\ captureMaxLen = [i \in AllIfaces |-> 0]
    /\ \E prevGen \in [AllIfaces -> BOOLEAN], prevRecv \in [AllIfaces -> BOOLEAN] :
           LET genOld == [g \in AllIfaces |->
                            GenRegionAssigned(prevGen, prevRecv, Region(0, 0), g)]
               recvOld == [i \in AllIfaces |->
                            RecvRegionAssigned(prevGen, prevRecv, Region(0, 0), i)]
           IN  /\ genRingBuffAddr = [g \in AllIfaces |-> genOld[g].addr]
               /\ genRingBuffAddrRange = [g \in AllIfaces |-> genOld[g].range]
               /\ recvRingBuffAddr = [i \in AllIfaces |-> recvOld[i].addr]
               /\ recvRingBuffAddrRange = [i \in AllIfaces |-> recvOld[i].range]

NextMem ==
    \/ \E g \in AllIfaces, b \in BOOLEAN : MemSetTrace(g, b)
    \/ \E i \in AllIfaces, b \in BOOLEAN : MemEnableCapture(i, b)
    \/ MemWriteConfig

SpecMem == InitMem /\ [][NextMem]_vars

\* the regions of the currently configured generators and receivers
ConfiguredRegions ==
    { Region(genRingBuffAddr[g], genRingBuffAddrRange[g]) :
          g \in {x \in AllIfaces : genBound[x]} }
    \cup { Region(recvRingBuffAddr[i], recvRingBuffAddrRange[i]) :
              i \in {x \in AllIfaces : recvEnabled[x]} }

\* region r lies wholly inside the bank at base with the given range
InBank(r, base, range) ==
    r.addr >= base /\ r.addr + r.range <= base + range

\* regions r and q share no address
Disjoint(r, q) ==
    r.addr + r.range < q.addr \/ q.addr + q.range < r.addr

\* C18: after WriteConfig, following any sequence of trace bind/unbind,
\* capture enable/disable and earlier WriteConfig calls, the regions of all
\* currently configured generators and receivers are pairwise disjoint, each
\* has a size that is a multiple of 16384 and larger than R_MIN and W_MAX, and
\* each lies wholly inside bank A or bank B
C18_RegionsDisjointInBanks ==
    memPc \in {"configured", "reconfigured"} =>
        /\ Cardinality(ConfiguredRegions) =
               Cardinality({x \in AllIfaces : genBound[x]})
               + Cardinality({x \in AllIfaces : recvEnabled[x]})
        /\ \A r, q \in ConfiguredRegions : r # q => Disjoint(r, q)
        /\ \A r \in ConfiguredRegions :
               /\ (r.range + 1) % RING_GRANULE = 0
               /\ r.range + 1 > TRANSFER_SIZE_PAGES
               /\ \/ InBank(r, ADDR_DDR_A, ADDR_RANGE_DDR_A)
                  \/ InBank(r, ADDR_DDR_B, ADDR_RANGE_DDR_B)

\* C18 witness: a WriteConfig with three generators and two receivers
\* configured, after an earlier WriteConfig had given the generator that is
\* now unbound the upper half of bank A
C18_Witness ==
    /\ memPc = "configured"
    /\ Cardinality({x \in AllIfaces : genBound[x]}) = 3
    /\ Cardinality({x \in AllIfaces : recvEnabled[x]}) = 2
    /\ ~genBound[1]
    /\ genRingBuffAddr[1] = ADDR_DDR_A + (ADDR_RANGE_DDR_A + 1) \div 2

\* the ids in S in ascending order
Ascending(S) ==
    CHOOSE seq \in [1 .. Cardinality(S) -> S] :
        \A a, b \in 1 .. Cardinality(S) : a < b => seq[a] < seq[b]

\* policy table, one kind of core only: the regions of the 1st .. n-th
\* configured core (in pages: a bank has 1048576 pages, half a bank 524288)
PolicyOneKind(n) ==
    IF n = 1 THEN <<Region(0, 1048575)>>
    ELSE IF n = 2 THEN <<Region(0, 1048575), Region(1048576, 1048575)>>
    ELSE IF n = 3
    THEN <<Region(0, 524287), Region(524288, 524287), Region(1048576, 1048575)>>
    ELSE <<Region(0, 524287), Region(524288, 524287),
           Region(1048576, 524287), Region(1572864, 524287)>>

\* policy table, generators and receivers: the k-th slice of 1 GiB (262144
\* pages) of the bank at base, or the whole bank for one generator and one
\* receiver
PolicyMixed(nGens, nRecvs, base, k) ==
    IF nGens = 1 /\ nRecvs = 1 THEN Region(base, 1048575)
    ELSE Region(base + (k - 1) * 262144, 262143)

\* the regions the policy table gives the cores with ids S of one kind,
\* when other cores of the other kind are configured; a core that is not
\* configured keeps the region before
PolicyRegions(S, other, base, before) ==
    [x \in AllIfaces |->
        IF x \notin S THEN before[x]
        ELSE LET k == CHOOSE j \in 1 .. Cardinality(S) : Ascending(S)[j] = x
             IN  IF other = 0 THEN PolicyOneKind(Cardinality(S))[k]
                 ELSE PolicyMixed(IF base = 0 THEN Cardinality(S) ELSE other,
                                  IF base = 0 THEN other ELSE Cardinality(S),
                                  base, k)]

\* C28: a WriteConfig assigns the regions of the policy table for every
\* (n_gen, n_recv): one kind only: 1 -> all of A; 2 -> A and B; 3 -> two
\* halves of A plus all of B; 4 -> halves of A and halves of B; (1,1) ->
\* generator all of A, receiver all of B; otherwise the k-th configured
\* generator in ascending id the k-th 1 GiB slice of A and the k-th
\* configured receiver the k-th 1 GiB slice of B; cores that are not
\* configured, and so all cores for (0,0), keep their regions
C28_RegionPolicyTable ==
    [][(memPc' # memPc) =>
          LET genIds == {x \in AllIfaces : genBound[x]}
              recvIds == {x \in AllIfaces : recvEnabled[x]}
              genBefore == [x \in AllIfaces |->
                  Region(genRingBuffAddr[x], genRingBuffAddrRange[x])]
              recvBefore == [x \in AllIfaces |->
                  Region(recvRingBuffAddr[x], recvRingBuffAddrRange[x])]
          IN  /\ [x \in AllIfaces |->
                     Region(genRingBuffAddr'[x], genRingBuffAddrRange'[x])]
                  = PolicyRegions(genIds, Cardinality(recvIds), 0, genBefore)
              /\ [x \in AllIfaces |->
                     Region(recvRingBuffAddr'[x], recvRingBuffAddrRange'[x])]
                  = PolicyRegions(recvIds, Cardinality(genIds),
                        IF genIds = {} THEN 0 ELSE 1048576, recvBefore)]_vars

\* C28 witness: after a WriteConfig with generators 0, 2 and 3 and no
\* receiver configured, generator 2 has the upper half of bank A and
\* generator 3 all of bank B, and generator 1 keeps a 1 GiB slice
C28_Witness ==
    /\ memPc = "configured"
    /\ genBound = [x \in AllIfaces |-> x # 1]
    /\ recvEnabled = [x \in AllIfaces |-> FALSE]
    /\ genRingBuffAddr[2] = 524288 /\ genRingBuffAddrRange[2] = 524287
    /\ genRingBuffAddr[3] = 1048576 /\ genRingBuffAddrRange[3] = 1048575
    /\ genRingBuffAddrRange[1] = 262143

(* ------------------------------ SpecCfg ------------------------------- *)

\* the arguments the timestamp setters are called with
ModeValues == 0 .. 3

PosValues == {-1, 0, 5, 6, 7, 1518, 1519}

WidthValues == {0, 8, 16, 24, 32}

\* a configuration call that ends in Log(LOG_ERR, ...)
CfgFatal(kind, arg) ==
    /\ memPc' = "fatal"
    /\ fatalMsg' = [kind |-> kind, id |-> arg]
    /\ UNCHANGED timestamp

\* NetworkTester.SetTimestampMode -> timestamp.setMode
SetTimestampMode(mode) ==
    /\ memPc = "changed"
    /\ IF mode # TimestampModeFixedPos /\ mode # TimestampModeHeader
       THEN CfgFatal("setMode", mode)
       ELSE /\ timestamp' = [timestamp EXCEPT !.mode = mode]
            /\ UNCHANGED <<memPc, fatalMsg>>
    /\ UNCHANGED <<recvEnabled, genRingBuffAddr, genRingBuffAddrRange,
                   recvRingBuffAddr, recvRingBuffAddrRange, captureMaxLen,
                   hostPtrs, cfgLog,
                   maskVars, errResult, identVars, extVars, taskVars, codecVars, traceVars, txVars, rxVars>>

\* NetworkTester.SetTimestampPos -> timestamp.setPos
SetTimestampPos(pos) ==
    /\ memPc = "changed"
    /\ IF timestamp.mode # TimestampModeFixedPos \/ pos < 0 \/ pos > 1518
       THEN CfgFatal("setPos", pos)
       ELSE /\ timestamp' = [timestamp EXCEPT !.pos = pos]
            /\ UNCHANGED <<memPc, fatalMsg>>
    /\ UNCHANGED <<recvEnabled, genRingBuffAddr, genRingBuffAddrRange,
                   recvRingBuffAddr, recvRingBuffAddrRange, captureMaxLen,
                   hostPtrs, cfgLog,
                   maskVars, errResult, identVars, extVars, taskVars, codecVars, traceVars, txVars, rxVars>>

\* NetworkTester.SetTimestampWidth -> timestamp.setWidth
SetTimestampWidth(width) ==
    /\ memPc = "changed"
    /\ IF timestamp.mode # TimestampModeFixedPos \/ (width # 16 /\ width # 24)
       THEN CfgFatal("setWidth", width)
       ELSE /\ timestamp' = [timestamp EXCEPT !.width = width]
            /\ UNCHANGED <<memPc, fatalMsg>>
    /\ UNCHANGED <<recvEnabled, genRingBuffAddr, genRingBuffAddrRange,
                   recvRingBuffAddr, recvRingBuffAddrRange, captureMaxLen,
                   hostPtrs, cfgLog,
                   maskVars, errResult, identVars, extVars, taskVars, codecVars, traceVars, txVars, rxVars>>

\* a replay and capture after WriteConfig, as far as the host-side pointers
\* and counters go: every configured generator has written one granule of
\* its trace, every configured receiver has read one granule
MemTransfer ==
    /\ memPc \in {"configured", "reconfigured"}
    /\ hostPtrs' =
         [i \in AllIfaces |->
            [ringBuffWrPtr |->
                 IF genBound[i] THEN RING_GRANULE ELSE hostPtrs[i].ringBuffWrPtr,
             nBytesTransfered |->
                 IF genBound[i] THEN RING_GRANULE ELSE hostPtrs[i].nBytesTransfered,
             ringBuffRdPtr |->
                 IF recvEnabled[i] THEN RING_GRANULE ELSE hostPtrs[i].ringBuffRdPtr,
             captureSize |->
                 IF recvEnabled[i] THEN RING_GRANULE ELSE hostPtrs[i].captureSize]]
    /\ memPc' = "ran"
    /\ UNCHANGED <<recvEnabled, genRingBuffAddr, genRingBuffAddrRange,
                   recvRingBuffAddr, recvRingBuffAddrRange, captureMaxLen,
                   timestamp, cfgLog,
                   fatalMsg, maskVars, errResult, identVars, extVars, taskVars, codecVars, traceVars,
                   txVars, rxVars>>

\* the tester NetworkTesterCreate returns
InitCfg ==
    /\ TraceIdle
    /\ AuxIdle
    /\ TxCreated
    /\ RxCreated

NextCfg ==
    \/ \E g \in AllIfaces, b \in BOOLEAN : MemSetTrace(g, b)
    \/ \E i \in AllIfaces, b \in BOOLEAN : MemEnableCapture(i, b)
    \/ \E mode \in ModeValues : SetTimestampMode(mode)
    \/ \E pos \in PosValues : SetTimestampPos(pos)
    \/ \E width \in WidthValues : SetTimestampWidth(width)
    \/ MemWriteConfig
    \/ MemTransfer

SpecCfg == InitCfg /\ [][NextCfg]_vars

\* C19: a WriteConfig that follows a WriteConfig, with no configuration change
\* and no replay or capture in between, gets through as the first did, issues
\* the same sequence of register writes (same registers, same values) and
\* leaves the same memory regions and host-side pointers and counters
C19_WriteConfigIdempotent ==
    [][(memPc = "configured" /\ memPc' # "configured")
          => (/\ memPc' \in {"reconfigured", "ran"}
              /\ (memPc' = "reconfigured"
                    => (/\ cfgLog' = cfgLog
                        /\ hostPtrs' = hostPtrs
                        /\ genRingBuffAddr' = genRingBuffAddr
                        /\ genRingBuffAddrRange' = genRingBuffAddrRange
                        /\ recvRingBuffAddr' = recvRingBuffAddr
                        /\ recvRingBuffAddrRange' = recvRingBuffAddrRange)))]_vars

\* C19 witness: a second WriteConfig in succession done, with a generator and
\* a receiver configured and the timestamp at a fixed position
C19_Witness ==
    /\ memPc = "reconfigured"
    /\ genBound[2]
    /\ recvEnabled[3]
    /\ timestamp.mode = TimestampModeFixedPos
    /\ Len(cfgLog) > 20

\* a timestamp of this geometry would spread across two 8 byte data words,
\* or has no width
BadGeometry ==
    \/ timestamp.width = 16 /\ timestamp.pos % 8 > 6
    \/ timestamp.width = 24 /\ timestamp.pos % 8 > 5
    \/ timestamp.width = 0

\* C20: in FixedPos mode setWidth(w) is accepted iff w is 16 or 24 and
\* setPos(p) iff 0 <= p <= 1518; a configuration with width 16 and
\* pos % 8 > 6, or width 24 and pos % 8 > 5, or with no width set, is
\* rejected by configHardware before any timestamp register is written,
\* whatever order pos and width were set in
C20_TimestampGeometry ==
    /\ timestamp.width \in {0, 16, 24}
    /\ timestamp.pos \in 0 .. 1518
    /\ (fatalMsg.kind = "setWidth" /\ timestamp.mode = TimestampModeFixedPos)
          => fatalMsg.id \notin {16, 24}
    /\ (fatalMsg.kind = "setPos" /\ timestamp.mode = TimestampModeFixedPos)
          => (fatalMsg.id < 0 \/ fatalMsg.id > 1518)
    /\ (memPc \in {"configured", "reconfigured", "ran"}
           /\ timestamp.mode = TimestampModeFixedPos) => ~BadGeometry
    /\ fatalMsg.kind = "timestamp.configHardware"
          => \A k \in 1 .. Len(cfgLog) :
                cfgLog[k][1] \notin {"NT_TIMESTAMP_WIDTH", "NT_TIMESTAMP_POS",
                                     "NT_TIMESTAMP_MODE",
                                     "NT_TIMESTAMP_CYCLES_PER_TICK"}

\* C20 witness: WriteConfig rejected a timestamp of width 24 at pos % 8 = 6,
\* after the registers of a generator had been written
C20_Witness ==
    /\ memPc = "fatal"
    /\ fatalMsg.kind = "timestamp.configHardware"
    /\ timestamp.mode = TimestampModeFixedPos
    /\ timestamp.width = 24
    /\ timestamp.pos = 1518
    /\ Len(cfgLog) > N_INTERFACES + 3

\* the value WriteConfig wrote last to the timestamp register reg
\* (-1: it wrote none)
RECURSIVE TimestampWrittenFrom(_, _)
TimestampWrittenFrom(reg, k) ==
    IF k < 1 THEN -1
    ELSE IF cfgLog[k][1] = reg THEN cfgLog[k][3]
    ELSE TimestampWrittenFrom(reg, k - 1)

\* setMode accepts each of the three modes and rejects any other value
ModesAccepted ==
    fatalMsg.kind = "setMode"
        => fatalMsg.id \notin {TimestampModeDisabled, TimestampModeFixedPos,
                               TimestampModeHeader}

\* the WIDTH and POS values a WriteConfig that got through has written
TimestampRegisters ==
    memPc \in {"configured", "reconfigured"} =>
        LET w == TimestampWrittenFrom("NT_TIMESTAMP_WIDTH", Len(cfgLog))
            p == TimestampWrittenFrom("NT_TIMESTAMP_POS", Len(cfgLog))
        IN  /\ timestamp.mode \in {TimestampModeHeader, TimestampModeDisabled}
                 => (w = 0 /\ p = 0)
            /\ (timestamp.mode = TimestampModeFixedPos /\ timestamp.width = 16)
                 => w = 0
            /\ (timestamp.mode = TimestampModeFixedPos /\ timestamp.width = 24)
                 => w = 1

\* C21: the timestamp mode can be set to each of the three modes Disabled,
\* FixedPos and Header, any other value is rejected; in Header and Disabled
\* modes configHardware writes 0 to both the POS and WIDTH registers, and in
\* FixedPos mode it writes WIDTH = 0 for width 16 and WIDTH = 1 for width 24
C21_ModesAndRegisterValues == ModesAccepted /\ TimestampRegisters

(* ------------------------------ SpecCap ------------------------------- *)

\* the lengths SetCaptureMaxLen is called with
MaxLenValues == {0, 64, 1518, 1519}

\* Receiver.SetCaptureMaxLen on receiver i
SetCaptureMaxLen(i, maxLen) ==
    /\ memPc = "changed"
    /\ IF recvEnabled[i] = FALSE
       THEN /\ memPc' = "fatal"
            /\ fatalMsg' = [kind |-> "SetCaptureMaxLen", id |-> maxLen]
            /\ UNCHANGED captureMaxLen
       ELSE /\ captureMaxLen' = [captureMaxLen EXCEPT ![i] = maxLen]
            /\ UNCHANGED <<memPc, fatalMsg>>
    /\ UNCHANGED <<recvEnabled, genRingBuffAddr, genRingBuffAddrRange,
                   recvRingBuffAddr, recvRingBuffAddrRange, timestamp,
                   hostPtrs, cfgLog, maskVars, errResult, identVars,
                   extVars, taskVars, codecVars, traceVars, txVars, rxVars>>

NextCap ==
    \/ \E i \in AllIfaces, b \in BOOLEAN : MemEnableCapture(i, b)
    \/ \E i \in AllIfaces, maxLen \in MaxLenValues : SetCaptureMaxLen(i, maxLen)
    \/ MemWriteConfig

SpecCap == InitCfg /\ [][NextCap]_vars

\* the values WriteConfig wrote to MAX_LEN_CAPTURE
MaxLenWritten ==
    { cfgLog[k][3] : k \in { j \in 1 .. Len(cfgLog) :
                               cfgLog[j][1] = "NT_RECV_CAPTURE_CTRL_MAX_LEN_CAPTURE" } }

\* C22: after any sequence of receiver configuration calls, the per-packet
\* capture cap stored in a receiver and written to MAX_LEN_CAPTURE is in
\* [0, 1518]; a request to set a cap outside that range is rejected
C22_CaptureCapInRange ==
    /\ \A i \in AllIfaces : captureMaxLen[i] \in 0 .. 1518
    /\ MaxLenWritten \subseteq 0 .. 1518

(* ------------------------------ SpecCodec ----------------------------- *)

\* most packets of an encoded capture
MaxPkts == 3

\* wire lengths of the packets, and capture lengths
WireLens == {60, 64, 128}

CapLens == {0, 64}

\* ways of filling in the other fields of the packets
Patterns == 0 .. 3

\* the k-th packet of a capture: its wire length w, and latency ticks,
\* latency flag and inter-arrival cycles after pattern p (the values reach
\* the top of the 24 and 28 bit fields; a packet without a latency carries
\* ticks all the same)
Packet(p, k, w) ==
    [ticks |-> IF (p \div 2 + k) % 2 = 0 THEN 4 + k ELSE 16777215 - k,
     has |-> (p + k) % 2 = 1,
     cycles |-> IF (p + k) % 2 = 0 THEN 268435455 - k ELSE 2 + k,
     wirelen |-> w,
     payload |-> [j \in 1 .. w |-> (j * (k + 2) + p) % 256]]

\* 8 byte meta data word of a packet, little-endian: latency ticks in bits
\* 0..23, has_latency in bit 24, inter-arrival cycles in bits 25..52, wire
\* length in bits 53..63
EncodeMeta(q) ==
    <<q.ticks % 256, (q.ticks \div 256) % 256, q.ticks \div 65536,
      (IF q.has THEN 1 ELSE 0) + 2 * (q.cycles % 128),
      (q.cycles \div 128) % 256, (q.cycles \div 32768) % 256,
      ((q.cycles \div 8388608) % 32) + 32 * (q.wirelen % 8),
      q.wirelen \div 8>>

\* the capture length of a packet of wire length w
CapLen(w, maxLen) == IF w > maxLen THEN maxLen ELSE w

\* meta data word, the first caplen payload bytes, zero padding to 8 bytes
EncodePacket(q, maxLen) ==
    LET caplen == CapLen(q.wirelen, maxLen)
    IN  EncodeMeta(q)
        \o [j \in 1 .. caplen |-> q.payload[j]]
        \o [j \in 1 .. ((8 - (caplen % 8)) % 8) |-> 0]

\* the stream of the packets from the k-th on, ended by the sentinel
RECURSIVE EncodeFrom(_, _, _)
EncodeFrom(qs, k, maxLen) ==
    IF k > Len(qs) THEN [j \in 1 .. 8 |-> 255]
    ELSE EncodePacket(qs[k], maxLen) \o EncodeFrom(qs, k + 1, maxLen)

\* a next position computed without the alignment to 8 bytes
NextPosRdUnaligned(posRd, lenCapture) == posRd + 8 + lenCapture

\* a next position that always skips a padding
NextPosRdPadded(posRd, lenCapture) ==
    posRd + 16 + lenCapture - (lenCapture % 8)

\* GetPackets: position of the next packet's meta data
NextPosRd(posRd, lenCapture) ==
    IF lenCapture % 8 = 0 THEN posRd + 8 + lenCapture
    ELSE posRd + 16 + lenCapture - (lenCapture % 8)

\* GetPackets: the loop from position posRd on. Latency and ArrivalTime are
\* in clock cycles (times FREQ_SFP); a slice that leaves capture.data is a
\* panic
RECURSIVE GetPacketsFrom(_, _)
GetPacketsFrom(c, posRd) ==
    IF posRd + 8 > Len(c.data) THEN [end |-> "panic", pkts |-> << >>]
    ELSE
    LET b == [j \in 1 .. 8 |-> c.data[posRd + j]]
        hasLatency == b[4] % 2 = 1
        latency == IF hasLatency
                   THEN (b[1] + 256 * b[2] + 65536 * b[3]) * c.tickPeriodLatency
                   ELSE 0
        arrivalTime == b[4] \div 2 + 128 * b[5] + 32768 * b[6]
                           + 8388608 * (b[7] % 32)
        lenWire == b[7] \div 32 + 8 * b[8]
        lenCapture == IF lenWire > c.maxLenCapture THEN c.maxLenCapture
                      ELSE lenWire
        pkt == [ArrivalTime |-> arrivalTime, HasLatency |-> hasLatency,
                Latency |-> latency, LenWire |-> lenWire,
                Data |-> [j \in 1 .. lenCapture |-> c.data[posRd + 8 + j]]]
        next == NextPosRd(posRd, lenCapture)
    IN  IF \A j \in 1 .. 8 : b[j] = 255 THEN [end |-> "return", pkts |-> << >>]
        ELSE IF posRd + 8 + lenCapture > Len(c.data)
        THEN [end |-> "panic", pkts |-> << >>]
        ELSE IF next >= c.posWr THEN [end |-> "return", pkts |-> <<pkt>>]
        ELSE LET rest == GetPacketsFrom(c, next)
             IN  [end |-> rest.end,
                  pkts |-> IF rest.end = "return" THEN <<pkt>> \o rest.pkts
                           ELSE << >>]

\* a GetPackets that decodes whatever the capture holds
GetPacketsOfAny(c) == GetPacketsFrom(c, 0)

\* Capture.GetPackets
GetPackets(c) ==
    IF c.discard THEN [end |-> "fatal", pkts |-> << >>]
    ELSE GetPacketsFrom(c, 0)

\* the call of GetPackets on the capture
GetPacketsCall ==
    /\ pkts.end = "none"
    /\ pkts' = GetPackets(capture)
    /\ UNCHANGED <<capture, injected, maskVars, errResult, identVars, memVars,
                   extVars, taskVars, traceVars, txVars, rxVars>>

\* a capture after StopCapture: the capture core has encoded up to MaxPkts
\* packets and the sentinel into the ring, and the receiver has drained
\* them. A retaining capture holds them from position 0 on in a slice with
\* room to spare; a discarding one holds its last ring buffer read
InitCodec ==
    /\ TraceIdle
    /\ MaskIdle
    /\ errResult = Err("none", -1)
    /\ IdentIdle
    /\ MemIdle
    /\ TaskIdle
    /\ ExtIdle
    /\ TxCreated
    /\ RxCreated
    /\ pkts = [end |-> "none", pkts |-> << >>]
    /\ \E n \in 0 .. MaxPkts, p \in Patterns, maxLen \in CapLens,
          discard \in BOOLEAN, cyclesPerTick \in 1 .. 2 :
          \E ws \in [1 .. n -> WireLens] :
             LET qs == [k \in 1 .. n |-> Packet(p, k, ws[k])]
                 stream == EncodeFrom(qs, 1, maxLen)
             IN  /\ injected = qs
                 /\ capture = [data |-> stream \o [j \in 1 .. 8 |-> 0],
                               size |-> Len(stream),
                               posWr |-> IF discard THEN 0 ELSE Len(stream),
                               discard |-> discard,
                               tickPeriodLatency |-> cyclesPerTick,
                               maxLenCapture |-> maxLen]

SpecCodec == InitCodec /\ [][GetPacketsCall]_vars

C25_CodecRoundTrip ==
    (pkts.end # "none" /\ ~capture.discard) =>
        /\ pkts.end = "return"
        /\ Len(pkts.pkts) = Len(injected)
        /\ \A k \in 1 .. Len(injected) :
              LET q == injected[k]
                  pkt == pkts.pkts[k]
                  caplen == CapLen(q.wirelen, capture.maxLenCapture)
              IN  /\ pkt.HasLatency = q.has
                  /\ q.has => pkt.Latency = q.ticks * capture.tickPeriodLatency
                  /\ pkt.ArrivalTime = q.cycles
                  /\ pkt.LenWire = q.wirelen
                  /\ pkt.Data = [j \in 1 .. caplen |-> q.payload[j]]

\* C25 witness: wire lengths 60, 64, 128 with cap 64 decoded to payload
\* lengths 60, 64, 64
C25_Witness ==
    /\ pkts.end = "return"
    /\ capture.maxLenCapture = 64
    /\ Len(pkts.pkts) = 3
    /\ [k \in 1 .. 3 |-> injected[k].wirelen] = <<60, 64, 128>>
    /\ [k \in 1 .. 3 |-> Len(pkts.pkts[k].Data)] = <<60, 64, 64>>

(* ------------------------------ SpecMask ------------------------------ *)

\* bit i of the unsigned value m
Bit(m, i) == (m \div (2 ^ i)) % 2

\* m & ^(0x1 << i)
ClearBit(m, i) == m - Bit(m, i) * (2 ^ i)

\* the loop body with the enable bit left at position 0
IfMaskStepNoShift(ifMask, id, enable) == ClearBit(ifMask, id) + enable

\* Generators.startRateCtrl, loop body:
\* ifMask = (ifMask & ^(0x1 << id)) | (enable << id)
IfMaskStep(ifMask, id, enable) == ClearBit(ifMask, id) + enable * (2 ^ id)

\* Generators.startRateCtrl: ifMask after the loop has run over the first n
\* generators (gens[i].id = i)
RECURSIVE IfMaskAfter(_, _)
IfMaskAfter(bound, n) ==
    IF n = 0 THEN 0
    ELSE IfMaskStep(IfMaskAfter(bound, n - 1), n - 1,
                    IF bound[n - 1] THEN 1 ELSE 0)

\* Generator.SetTrace on generator g: binds a trace (b) or nil (~b)
MaskSetTrace(g, b) ==
    /\ genBound' = [genBound EXCEPT ![g] = b]
    /\ maskPc' = "idle"
    /\ UNCHANGED <<regMask, errResult, identVars, memVars,
                   extVars, taskVars, codecVars, traceVars, txVars, rxVars>>

\* Generators.startRateCtrl: assembles the mask and writes RATE_CTRL_ACTIVE
\* (uint32: shifts by gen.id < N_INTERFACES never leave the 32 bits)
MaskStartRateCtrl ==
    /\ regMask' = IfMaskAfter(genBound, N_INTERFACES)
    /\ maskPc' = "written"
    /\ UNCHANGED <<genBound, errResult, identVars, memVars,
                   extVars, taskVars, codecVars, traceVars, txVars, rxVars>>

InitMask == TraceIdle /\ AuxIdle /\ TxCreated /\ RxCreated

NextMask ==
    \/ \E g \in AllIfaces, b \in BOOLEAN : MaskSetTrace(g, b)
    \/ MaskStartRateCtrl

SpecMask == InitMask /\ [][NextMask]_vars

\* C12: the mask written to RATE_CTRL_ACTIVE has bit i set if and only if
\* generator i is bound to a trace, for every subset of the four interfaces,
\* and no other bit set
C12_MaskBitIffBound ==
    maskPc = "written" =>
        /\ \A i \in AllIfaces : (Bit(regMask, i) = 1) <=> genBound[i]
        /\ regMask < 2 ^ N_INTERFACES

\* C12 witness: only generator 0 is bound and the mask written is 0b0001
C12_Witness ==
    /\ maskPc = "written"
    /\ regMask = 1
    /\ \A i \in AllIfaces : genBound[i] <=> (i = 0)

(* ------------------------- Capture, Receiver -------------------------- *)

\* a zero-initialised byte slice of n bytes: no byte of it was ever written
Zeroed(n) == [k \in 1 .. n |-> -1]

\* captureCreate: the data slice of a new capture. In discard mode it holds
\* a single ring buffer read and memSize is ignored.
captureCreate(memSize, discard) ==
    IF discard THEN Zeroed(RING_BUFF_RD_TRANSFER_SIZE_MIN) ELSE Zeroed(memSize)

\* Capture.getWriteSlice: the slice bounds [lo, hi) into capture.data
WriteSliceLo(posWr) == posWr

WriteSliceHi(posWr, size) == posWr + size

\* Capture.getWriteSlice: the write position after the call
WriteSlicePosWr(posWr, size, discard) == IF discard THEN posWr ELSE posWr + size

\* a size that counts only the bytes a capture retains
WriteSliceSizeRetained(size0, size, discard) ==
    IF discard THEN size0 ELSE size0 + size

\* Capture.getWriteSlice: capture.size after the call
WriteSliceSize(size0, size, discard) == size0 + size

\* the byte the capture core has stored at ring address p after written
\* bytes: the core writes byte k of its stream to address k mod RingSize
RingAt(written, p) ==
    LET last == written - 1
        k == last - ((last - p) % RingSize)
    IN  IF written = 0 \/ k < 0 THEN -1 ELSE k

\* pcieDMARead.Read(ringBuffAddr + ringBuffRdPtr, data): size bytes of the
\* ring, from addr on
DmaRead(written, addr, size) ==
    [k \in 1 .. size |-> RingAt(written, addr + k - 1)]

\* readRingBuff that never reads more than the periodic granule
RdTransferSizePeriodic(readAll, rdPtr, wrPtr) ==
    LET ringBuffSizeEnd == RingSize - rdPtr
    IN  IF ringBuffSizeEnd <= RING_BUFF_RD_TRANSFER_SIZE_MIN
        THEN ringBuffSizeEnd
        ELSE RING_BUFF_RD_TRANSFER_SIZE_MIN

\* readRingBuff that reads one block at a time
RdTransferSizeOneBlock(readAll, rdPtr, wrPtr) == 1

\* readRingBuff: the number of bytes the step wants to transfer
RdTransferSize(readAll, rdPtr, wrPtr) ==
    LET ringBuffSizeEnd == RingSize - rdPtr
        t0 == IF ringBuffSizeEnd <= RING_BUFF_RD_TRANSFER_SIZE_MIN
              THEN ringBuffSizeEnd
              ELSE RING_BUFF_RD_TRANSFER_SIZE_MIN
    IN  IF readAll /\ rdPtr < wrPtr THEN wrPtr - rdPtr
        ELSE IF readAll /\ rdPtr > wrPtr THEN ringBuffSizeEnd
        ELSE t0

\* readRingBuff that reads a granule as soon as the ring holds any data
RdDoTransferAnyData(rdPtr, wrPtr, transferSize) ==
    rdPtr # wrPtr

\* readRingBuff: doTransfer
RdDoTransfer(rdPtr, wrPtr, transferSize) ==
    IF rdPtr = wrPtr THEN FALSE
    ELSE IF rdPtr < wrPtr THEN (wrPtr - rdPtr) >= transferSize
    ELSE TRUE

(* ------------------------- Generator (TX ring) ------------------------ *)

\* writeRingBuff that does not clip the transfer to the outstanding bytes
WrTransferSizeUnclipped(outstanding, wrPtr) ==
    LET ringBuffSizeEnd == RingSize - wrPtr
    IN  IF ringBuffSizeEnd <= RING_BUFF_WR_TRANSFER_SIZE_MAX
        THEN ringBuffSizeEnd
        ELSE RING_BUFF_WR_TRANSFER_SIZE_MAX

\* writeRingBuff: the number of bytes the step wants to transfer
WrTransferSize(outstanding, wrPtr) ==
    LET t0 == IF outstanding <= RING_BUFF_WR_TRANSFER_SIZE_MAX
              THEN outstanding
              ELSE RING_BUFF_WR_TRANSFER_SIZE_MAX
        ringBuffSizeEnd == RingSize - wrPtr
    IN  IF ringBuffSizeEnd <= t0 THEN ringBuffSizeEnd ELSE t0

\* writeRingBuff with the strict comparison of the rdPtr > wrPtr case relaxed:
\* the write pointer may reach the read pointer
WrDoTransferNotStrict(rdPtr, wrPtr, transferSize) ==
    IF rdPtr = wrPtr THEN TRUE
    ELSE IF rdPtr < wrPtr
         THEN (rdPtr # 0) \/ (wrPtr + transferSize # RingSize)
         ELSE (rdPtr - wrPtr) >= transferSize

\* writeRingBuff without the special case of a write that ends at the end of
\* the ring while the read pointer is 0
WrDoTransferNoWrapCheck(rdPtr, wrPtr, transferSize) ==
    IF rdPtr = wrPtr THEN TRUE
    ELSE IF rdPtr < wrPtr
         THEN TRUE
         ELSE (rdPtr - wrPtr) > transferSize

\* writeRingBuff: doTransfer
WrDoTransfer(rdPtr, wrPtr, transferSize) ==
    IF rdPtr = wrPtr THEN TRUE
    ELSE IF rdPtr < wrPtr
         THEN (rdPtr # 0) \/ (wrPtr + transferSize # RingSize)
         ELSE (rdPtr - wrPtr) > transferSize

\* a pointer update that does not wrap at the end of the ring
PtrAdvanceNoWrap(ptr, transferSize) ==
    IF ptr + transferSize > RingSize THEN -1 ELSE ptr + transferSize

\* writeRingBuff / readRingBuff: the pointer after a transfer ("should not
\* happen" panics when the transfer runs over the end of the ring)
PtrAdvance(ptr, transferSize) ==
    IF ptr + transferSize = RingSize THEN 0
    ELSE IF ptr + transferSize > RingSize THEN -1
    ELSE ptr + transferSize

\* Generators.startRateCtrl: the interface mask, as the set of bits set
RateCtrlMask == { g \in Ifaces : trace[g] # NoTrace }

\* Generator.isActive: STATUS bits 0..1 of the replay core. The core is
\* active from START until it has read TRACE_SIZE bytes from the ring.
IsActive(g) == regGenStart[g] = 1 /\ devConsumed[g] < regGenTraceSize[g]

\* Generators.areActive that polls the first generator only
AreActiveFirstOnly == trace[0] # NoTrace /\ IsActive(0)

\* Generators.areActive
AreActive == \E g \in Ifaces : trace[g] # NoTrace /\ IsActive(g)

\* Generator.SetTrace
SetTrace(g, tr) ==
    /\ fgPc = "created"
    /\ trace' = [trace EXCEPT ![g] = tr]
    /\ UNCHANGED <<nBytesTransfered, ringBuffWrPtr, txRegVars, fgVars, unitVars, rxVars>>

\* NetworkTester.SetCheckErrors
SetCheckErrors(b) ==
    /\ fgPc = "created"
    /\ checkErrors' = b
    /\ UNCHANGED <<genVars, txRegVars, fgPc, genIdx, wrXfer, nTransferedBytes,
                   lastRet, unitVars, rxVars>>

\* NetworkTester.WriteConfig, the receivers: resetHardware (capture
\* deasserted, global reset of the cores) and Receiver.configHardware of every
\* receiver. A receiver with capture disabled is left alone by configHardware.
WriteConfigRx ==
    /\ regRecvActive' = [i \in Ifaces |-> 0]
    /\ regRecvStatusActive' = [i \in Ifaces |-> 0]
    /\ regRecvAddrWr' = [i \in Ifaces |-> 0]
    /\ regRecvErrs' = [i \in Ifaces |-> 0]
    /\ devWritten' = [i \in Ifaces |-> 0]
    /\ ringBuffRdPtr' = [i \in Ifaces |->
            IF captureEnable[i] THEN 0 ELSE ringBuffRdPtr[i]]
    /\ regRecvAddrRd' = [i \in Ifaces |->
            IF captureEnable[i] THEN 0 ELSE regRecvAddrRd[i]]
    /\ capData' = [i \in Ifaces |->
            IF captureEnable[i]
            THEN captureCreate(captureHostMemSize[i], captureDiscard[i])
            ELSE capData[i]]
    /\ capPosWr' = [i \in Ifaces |-> IF captureEnable[i] THEN 0 ELSE capPosWr[i]]
    /\ capSize' = [i \in Ifaces |-> IF captureEnable[i] THEN 0 ELSE capSize[i]]
    /\ UNCHANGED <<captureEnable, captureDiscard, captureHostMemSize, capVars>>

\* NetworkTester.WriteConfig: resetHardware (rate control off, capture
\* deasserted, global reset of the cores), then configHardware of every
\* generator and receiver. A generator without a trace is left alone by
\* configHardware.
WriteConfig ==
    /\ fgPc \in {"created", "returned", "stopped"}
    /\ WriteConfigRx
    /\ regRateCtrlActive' = {}
    /\ regGenStart' = [g \in Ifaces |-> 0]
    /\ regGenAddrRd' = [g \in Ifaces |-> 0]
    /\ devConsumed' = [g \in Ifaces |-> 0]
    /\ regRateCtrlStatus' = [g \in Ifaces |-> 0]
    /\ ringBuffWrPtr' = [g \in Ifaces |->
            IF trace[g] # NoTrace THEN 0 ELSE ringBuffWrPtr[g]]
    /\ regGenAddrWr' = [g \in Ifaces |->
            IF trace[g] # NoTrace THEN 0 ELSE regGenAddrWr[g]]
    /\ nBytesTransfered' = [g \in Ifaces |->
            IF trace[g] # NoTrace THEN 0 ELSE nBytesTransfered[g]]
    /\ regGenTraceSize' = [g \in Ifaces |->
            IF trace[g] # NoTrace THEN GetSize(trace[g]) ELSE regGenTraceSize[g]]
    /\ fgPc' = "configured"
    /\ genIdx' = 0
    /\ wrXfer' = 0
    /\ nTransferedBytes' = 0
    /\ lastRet' = [g \in Ifaces |-> 0]
    /\ UNCHANGED <<trace, checkErrors, unitVars>>

\* NetworkTester.StartReplay is called: enter the pre-fill loop
StartReplay ==
    /\ fgPc = "configured"
    /\ fgPc' = "prefill"
    /\ genIdx' = 0
    /\ nTransferedBytes' = 0
    /\ UNCHANGED <<genVars, txRegVars, wrXfer, lastRet, checkErrors, unitVars, rxVars>>

\* writeRingBuff returns n for generator g; writeRingBuffs goes on
WrReturn(g, n) ==
    /\ lastRet' = [lastRet EXCEPT ![g] = n]
    /\ nTransferedBytes' = nTransferedBytes + n
    /\ genIdx' = g + 1
    /\ wrXfer' = 0

\* Generator.writeRingBuff up to the completion of the DMA transfer: reads
\* ADDR_RD, decides, reads the trace, and has the DMA engine write the data
\* to the ring. dmaOk: the H2C DMA write returns no error (an error is fatal)
WrBegin(g, dmaOk) ==
    /\ fgPc \in {"prefill", "refill"}
    /\ genIdx = g
    /\ wrXfer = 0
    /\ LET traceSize == GetSize(trace[g])
           traceSizeOutStanding == traceSize - nBytesTransfered[g]
           transferSize == WrTransferSize(traceSizeOutStanding, ringBuffWrPtr[g])
       IN  IF \/ trace[g] = NoTrace
              \/ traceSizeOutStanding = 0
              \/ ~WrDoTransfer(regGenAddrRd[g], ringBuffWrPtr[g], transferSize)
           THEN /\ dmaOk
                /\ WrReturn(g, 0)
                /\ UNCHANGED fgPc
           ELSE IF TraceRead(trace[g], traceSize - traceSizeOutStanding,
                             transferSize).st # "ok"
           THEN /\ dmaOk
                /\ fgPc' = "panic"
                /\ UNCHANGED <<genIdx, wrXfer, nTransferedBytes, lastRet>>
           ELSE IF ~dmaOk
           THEN /\ fgPc' = "fatal"
                /\ UNCHANGED <<genIdx, wrXfer, nTransferedBytes, lastRet>>
           ELSE /\ wrXfer' = transferSize
                /\ UNCHANGED <<fgPc, genIdx, nTransferedBytes, lastRet>>
    /\ UNCHANGED <<genVars, txRegVars, checkErrors, unitVars, rxVars>>

\* Generator.writeRingBuff from the completion of the DMA transfer: updates
\* the write pointer, writes it to ADDR_WR, counts the bytes and returns
WrEnd(g) ==
    /\ fgPc \in {"prefill", "refill"}
    /\ genIdx = g
    /\ wrXfer > 0
    /\ IF PtrAdvance(ringBuffWrPtr[g], wrXfer) = -1
       THEN /\ fgPc' = "panic"
            /\ UNCHANGED <<genVars, regGenAddrWr, genIdx, wrXfer,
                           nTransferedBytes, lastRet>>
       ELSE /\ ringBuffWrPtr' = [ringBuffWrPtr EXCEPT
                                    ![g] = PtrAdvance(ringBuffWrPtr[g], wrXfer)]
            /\ regGenAddrWr' = [regGenAddrWr EXCEPT
                                    ![g] = PtrAdvance(ringBuffWrPtr[g], wrXfer)]
            /\ nBytesTransfered' = [nBytesTransfered EXCEPT ![g] = @ + wrXfer]
            /\ WrReturn(g, wrXfer)
            /\ UNCHANGED <<trace, fgPc>>
    /\ UNCHANGED <<regGenAddrRd, regGenTraceSize, regGenStart, regRateCtrlActive,
                   regRateCtrlStatus, devConsumed, checkErrors, unitVars, rxVars>>

\* StartReplay, pre-fill loop: writeRingBuffs has returned
PrefillRoundEnd ==
    /\ fgPc = "prefill"
    /\ genIdx = NumIfaces
    /\ fgPc' = IF nTransferedBytes = 0 THEN "start" ELSE "prefill"
    /\ genIdx' = 0
    /\ nTransferedBytes' = 0
    /\ UNCHANGED <<genVars, txRegVars, wrXfer, lastRet, checkErrors, unitVars, rxVars>>

\* Generator.start without the early return of a generator with no trace
GenStartValueAlways(g) == 1

\* Generator.start that triggers generator 0 only
GenStartValueFirstOnly(g) ==
    IF trace[g] # NoTrace /\ g = 0 THEN 1 ELSE regGenStart[g]

\* Generator.start: the value written to START (nothing without a trace)
GenStartValue(g) == IF trace[g] # NoTrace THEN 1 ELSE regGenStart[g]

\* Generators.start, one generator at a time
GenStart(g) ==
    /\ fgPc = "start"
    /\ genIdx = g
    /\ regGenStart' = [regGenStart EXCEPT ![g] = GenStartValue(g)]
    /\ genIdx' = g + 1
    /\ UNCHANGED <<genVars, regGenAddrWr, regGenAddrRd, regGenTraceSize,
                   regRateCtrlActive, regRateCtrlStatus, devConsumed, fgPc,
                   wrXfer, nTransferedBytes, lastRet, checkErrors, unitVars, rxVars>>

\* StartReplay: time.Sleep(100 ms), then Generators.startRateCtrl
StartRateCtrl ==
    /\ fgPc = "start"
    /\ genIdx = NumIfaces
    /\ regRateCtrlActive' = RateCtrlMask
    /\ fgPc' = "refill"
    /\ genIdx' = 0
    /\ nTransferedBytes' = 0
    /\ UNCHANGED <<genVars, regGenAddrWr, regGenAddrRd, regGenTraceSize,
                   regGenStart, regRateCtrlStatus, devConsumed, wrXfer, lastRet,
                   checkErrors, unitVars, rxVars>>

\* StartReplay, refill loop: writeRingBuffs has returned, areActive is polled
RefillRoundEnd ==
    /\ fgPc = "refill"
    /\ genIdx = NumIfaces
    /\ fgPc' = IF AreActive THEN "refill" ELSE "settle"
    /\ genIdx' = 0
    /\ nTransferedBytes' = 0
    /\ UNCHANGED <<genVars, txRegVars, wrXfer, lastRet, checkErrors, unitVars, rxVars>>

\* StartReplay: time.Sleep(1 s), then Generators.stopRateCtrl
StopRateCtrl ==
    /\ fgPc = "settle"
    /\ regRateCtrlActive' = {}
    /\ fgPc' = "check"
    /\ UNCHANGED <<genVars, regGenAddrWr, regGenAddrRd, regGenTraceSize,
                   regGenStart, regRateCtrlStatus, devConsumed, genIdx, wrXfer,
                   nTransferedBytes, lastRet, checkErrors, unitVars, rxVars>>

\* Generator.checkError: bit 0 of RATE_CTRL_STATUS is the timing error
GenCheckError(g) ==
    IF Bit(regRateCtrlStatus[g], 0) > 0 THEN Err("timing", g) ELSE Err("nil", -1)

\* Generators.checkErrors: the first error in the order of nt.gens
RECURSIVE GensCheckErrorsFrom(_)
GensCheckErrorsFrom(g) ==
    IF g = NumIfaces THEN Err("nil", -1)
    ELSE IF GenCheckError(g).kind # "nil" THEN GenCheckError(g)
    ELSE GensCheckErrorsFrom(g + 1)

\* Generators.checkErrors(true): some generator reports a timing error
GenErrors == GensCheckErrorsFrom(0).kind # "nil"

\* StartReplay's error check that does not look at nt.checkErrors
ReplayCheckErrorsNoFlag ==
    /\ fgPc = "check"
    /\ fgPc' = IF GenErrors THEN "fatal" ELSE "returned"
    /\ UNCHANGED <<genVars, txRegVars, genIdx, wrXfer, nTransferedBytes,
                   lastRet, checkErrors, unitVars, rxVars>>

\* StartReplay: the error check and the return
ReplayCheckErrors ==
    /\ fgPc = "check"
    /\ fgPc' = IF checkErrors /\ GenErrors THEN "fatal" ELSE "returned"
    /\ UNCHANGED <<genVars, txRegVars, genIdx, wrXfer, nTransferedBytes,
                   lastRet, checkErrors, unitVars, rxVars>>

(* --------------------------- replay hardware -------------------------- *)

\* the replay core reads one block from its TX ring: it has been started,
\* has trace bytes left to read, and the ring holds data (ADDR_RD # ADDR_WR)
DevRead(g) ==
    /\ regGenStart[g] = 1
    /\ devConsumed[g] < regGenTraceSize[g]
    /\ regGenAddrRd[g] # regGenAddrWr[g]
    /\ regGenAddrRd' = [regGenAddrRd EXCEPT ![g] = (@ + 1) % RingSize]
    /\ devConsumed' = [devConsumed EXCEPT ![g] = @ + 1]
    /\ UNCHANGED <<genVars, regGenAddrWr, regGenTraceSize, regGenStart,
                   regRateCtrlActive, regRateCtrlStatus, fgVars, unitVars, rxVars>>

\* the rate control module flags a timing error: it is active and the TX
\* ring ran empty before the whole trace was read
DevTimingError(g) ==
    /\ g \in regRateCtrlActive
    /\ regRateCtrlStatus[g] = 0
    /\ regGenAddrRd[g] = regGenAddrWr[g]
    /\ devConsumed[g] < regGenTraceSize[g]
    /\ regRateCtrlStatus' = [regRateCtrlStatus EXCEPT ![g] = 1]
    /\ UNCHANGED <<genVars, regGenAddrWr, regGenAddrRd, regGenTraceSize,
                   regGenStart, regRateCtrlActive, devConsumed, fgVars, unitVars, rxVars>>

(* -------------------------------- SpecTx ------------------------------ *)

InitTx == TraceIdle /\ AuxIdle /\ TxCreated /\ RxCreated

NextTx ==
    \/ \E g \in Ifaces, tr \in Traces : SetTrace(g, tr)
    \/ \E b \in BOOLEAN : SetCheckErrors(b)
    \/ WriteConfig
    \/ StartReplay
    \/ \E g \in Ifaces, dmaOk \in BOOLEAN : WrBegin(g, dmaOk)
    \/ \E g \in Ifaces : WrEnd(g)
    \/ PrefillRoundEnd
    \/ \E g \in Ifaces : GenStart(g)
    \/ StartRateCtrl
    \/ RefillRoundEnd
    \/ StopRateCtrl
    \/ ReplayCheckErrors
    \/ \E g \in Ifaces : DevRead(g)
    \/ \E g \in Ifaces : DevTimingError(g)

SpecTx == InitTx /\ [][NextTx]_vars


\* the steps of StartReplay, which runs to completion once called, with DMA
\* transfers that complete without an error
ReplayStep ==
    \/ \E g \in Ifaces : WrBegin(g, TRUE)
    \/ \E g \in Ifaces : WrEnd(g)
    \/ PrefillRoundEnd
    \/ \E g \in Ifaces : GenStart(g)
    \/ StartRateCtrl
    \/ RefillRoundEnd
    \/ StopRateCtrl
    \/ ReplayCheckErrors

\* the traces that are larger than the ring (Trace.read never spans more than
\* one wrap-around of such a trace)
LargeTraces == { tr \in Traces : tr.size > RingSize }

\* replay of traces larger than the ring, with a foreground that keeps
\* running and replay cores that keep reading while their ring holds data
NextTxLarge ==
    \/ \E g \in Ifaces, tr \in LargeTraces : SetTrace(g, tr)
    \/ \E b \in BOOLEAN : SetCheckErrors(b)
    \/ WriteConfig
    \/ StartReplay
    \/ ReplayStep
    \/ \E g \in Ifaces : DevRead(g)
    \/ \E g \in Ifaces : DevTimingError(g)

SpecTxLarge ==
    /\ InitTx
    /\ [][NextTxLarge]_vars
    /\ WF_vars(ReplayStep)
    /\ \A g \in Ifaces : WF_vars(DevRead(g))

(* ------------------- Receiver (RX ring) and capture ------------------- *)

\* the host memory sizes a receiver is configured with
HostMemSizes == {RING_BUFF_RD_TRANSFER_SIZE_MIN, MaxRxBytes}

\* the process ends: a Go panic or Log(LOG_ERR, ...) in any goroutine
ProcessEnds(how) ==
    /\ fgPc' = how
    /\ capPc' = how

\* Receiver.EnableCapture
EnableCapture(i, enable) ==
    /\ fgPc = "created"
    /\ captureEnable' = [captureEnable EXCEPT ![i] = enable]
    /\ UNCHANGED <<captureDiscard, captureHostMemSize, ringBuffRdPtr, capData,
                   capPosWr, capSize, rxRegVars, capVars, txVars, unitVars>>

\* Receiver.SetCaptureDiscard: fatal while capturing is disabled
SetCaptureDiscard(i, discard) ==
    /\ fgPc = "created"
    /\ IF captureEnable[i]
       THEN /\ captureDiscard' = [captureDiscard EXCEPT ![i] = discard]
            /\ UNCHANGED <<fgVars, capVars>>
       ELSE /\ ProcessEnds("fatal")
            /\ UNCHANGED <<captureDiscard, genIdx, wrXfer, nTransferedBytes,
                           lastRet, checkErrors, capIdx, rdXfer, nBytesRead>>
    /\ UNCHANGED <<captureEnable, captureHostMemSize, ringBuffRdPtr, capData,
                   capPosWr, capSize, rxRegVars, genVars, txRegVars, unitVars>>

\* Receiver.SetCaptureHostMemSize (sizes are counted in 64-byte blocks, so
\* the rounding up to a multiple of 64 bytes has been done): fatal while
\* capturing is disabled
SetCaptureHostMemSize(i, size) ==
    /\ fgPc = "created"
    /\ IF captureEnable[i]
       THEN /\ captureHostMemSize' = [captureHostMemSize EXCEPT ![i] = size]
            /\ UNCHANGED <<fgVars, capVars>>
       ELSE /\ ProcessEnds("fatal")
            /\ UNCHANGED <<captureHostMemSize, genIdx, wrXfer, nTransferedBytes,
                           lastRet, checkErrors, capIdx, rdXfer, nBytesRead>>
    /\ UNCHANGED <<captureEnable, captureDiscard, ringBuffRdPtr, capData,
                   capPosWr, capSize, rxRegVars, genVars, txRegVars, unitVars>>

\* NetworkTester.StartCapture: makes the stop channel, adds one to the wait
\* group and launches the capture goroutine; then it returns
StartCapture ==
    /\ fgPc = "configured"
    /\ fgPc' = "capturing"
    /\ capPc' = "start"
    /\ capIdx' = 0
    /\ rdXfer' = 0
    /\ nBytesRead' = [i \in Ifaces |-> -1]
    /\ UNCHANGED <<recvVars, rxRegVars, genVars, txRegVars, genIdx, wrXfer,
                   nTransferedBytes, lastRet, checkErrors, unitVars>>

\* the loop over nt.recvs goes on to the next receiver, or the loop ends and
\* the goroutine goes on at position after
NextRecv(i, after) ==
    IF i + 1 < NumIfaces
    THEN capIdx' = i + 1 /\ UNCHANGED capPc
    ELSE capIdx' = 0 /\ capPc' = after

\* a Receiver.start that triggers the generator of its interface as well
RecvStartWithGen(i) ==
    /\ capPc = "start"
    /\ capIdx = i
    /\ IF captureEnable[i]
       THEN /\ regRecvActive' = [regRecvActive EXCEPT ![i] = 1]
            /\ regRecvStatusActive' = [regRecvStatusActive EXCEPT ![i] = 1]
            /\ regGenStart' = [regGenStart EXCEPT ![i] = 1]
       ELSE UNCHANGED <<regRecvActive, regRecvStatusActive, regGenStart>>
    /\ NextRecv(i, "select")
    /\ UNCHANGED <<recvVars, regRecvAddrWr, regRecvAddrRd, regRecvErrs,
                   devWritten, rdXfer, nBytesRead, genVars, regGenAddrWr,
                   regGenAddrRd, regGenTraceSize, regRateCtrlActive,
                   regRateCtrlStatus, devConsumed, fgVars, unitVars>>

\* capture goroutine, Receivers.start: Receiver.start of receiver i
RecvStart(i) ==
    /\ capPc = "start"
    /\ capIdx = i
    /\ IF captureEnable[i]
       THEN /\ regRecvActive' = [regRecvActive EXCEPT ![i] = 1]
            /\ regRecvStatusActive' = [regRecvStatusActive EXCEPT ![i] = 1]
       ELSE UNCHANGED <<regRecvActive, regRecvStatusActive>>
    /\ NextRecv(i, "select")
    /\ UNCHANGED <<recvVars, regRecvAddrWr, regRecvAddrRd, regRecvErrs,
                   devWritten, rdXfer, nBytesRead, txVars, unitVars>>

\* NetworkTester.StopCapture is called: the foreground blocks in the send on
\* the unbuffered stop channel
StopCapture ==
    /\ fgPc = "capturing"
    /\ fgPc' = "stopSend"
    /\ UNCHANGED <<rxVars, genVars, txRegVars, genIdx, wrXfer, nTransferedBytes,
                   lastRet, checkErrors, unitVars>>

\* where the capture loop goes after its select statement
AfterSelect(stop) == IF stop THEN "stop" ELSE "read"

\* capture goroutine, loop head: the select receives the stop request (the
\* foreground is blocked in the send, which completes) and the loop is left
CaptureSelectStop ==
    /\ capPc = "select"
    /\ fgPc = "stopSend"
    /\ fgPc' = "stopWait"
    /\ capPc' = AfterSelect(TRUE)
    /\ capIdx' = 0
    /\ UNCHANGED <<recvVars, rxRegVars, rdXfer, nBytesRead, genVars, txRegVars,
                   genIdx, wrXfer, nTransferedBytes, lastRet, checkErrors,
                   unitVars>>

\* capture goroutine, loop head: no stop request is pending, the select takes
\* its default case and Receivers.readRingBuffs is called
CaptureSelectDefault ==
    /\ capPc = "select"
    /\ fgPc # "stopSend"
    /\ capPc' = AfterSelect(FALSE)
    /\ capIdx' = 0
    /\ UNCHANGED <<recvVars, rxRegVars, rdXfer, nBytesRead, txVars, unitVars>>

\* readRingBuff of receiver i returns n: the periodic loop goes on to the
\* next receiver; the final drain loop reads receiver i again unless n is 0
RdReturn(i, n) ==
    /\ rdXfer' = 0
    /\ IF capPc = "read"
       THEN /\ NextRecv(i, "select")
            /\ UNCHANGED nBytesRead
       ELSE /\ nBytesRead' = [nBytesRead EXCEPT ![i] = n]
            /\ IF n = 0
               THEN NextRecv(i, "done")
               ELSE UNCHANGED <<capPc, capIdx>>

\* Receiver.readRingBuff up to the completion of the DMA transfer: reads
\* ADDR_WR, decides, takes the write slice of the capture and has the DMA
\* engine fill it from the ring. dmaOk: the C2H DMA read returns no error
\* and has stored the data; readRingBuff does not look at the error, and the
\* slice keeps its content when the read fails
RdBegin(i, dmaOk) ==
    /\ capPc \in {"read", "drain"}
    /\ capIdx = i
    /\ rdXfer = 0
    /\ LET readAll == capPc = "drain"
           rdPtr == ringBuffRdPtr[i]
           wrPtr == regRecvAddrWr[i]
           transferSize == RdTransferSize(readAll, rdPtr, wrPtr)
           lo == WriteSliceLo(capPosWr[i])
           hi == WriteSliceHi(capPosWr[i], transferSize)
           data == DmaRead(devWritten[i], rdPtr, transferSize)
       IN  IF ~captureEnable[i] \/ ~RdDoTransfer(rdPtr, wrPtr, transferSize)
           THEN /\ dmaOk
                /\ RdReturn(i, 0)
                /\ UNCHANGED <<capData, capPosWr, capSize, fgPc>>
           ELSE IF ~SliceOk(capData[i], lo, hi)
           THEN /\ dmaOk
                /\ ProcessEnds("panic")
                /\ UNCHANGED <<capData, capPosWr, capSize, capIdx, rdXfer,
                               nBytesRead>>
           ELSE /\ capData' = [capData EXCEPT ![i] =
                        [k \in 1 .. Len(@) |->
                            IF dmaOk /\ lo < k /\ k <= hi
                            THEN data[k - lo] ELSE @[k]]]
                /\ capPosWr' = [capPosWr EXCEPT ![i] =
                        WriteSlicePosWr(@, transferSize, captureDiscard[i])]
                /\ capSize' = [capSize EXCEPT ![i] =
                        WriteSliceSize(@, transferSize, captureDiscard[i])]
                /\ rdXfer' = transferSize
                /\ UNCHANGED <<capPc, capIdx, nBytesRead, fgPc>>
    /\ UNCHANGED <<captureEnable, captureDiscard, captureHostMemSize,
                   ringBuffRdPtr, rxRegVars, genVars, txRegVars, genIdx, wrXfer,
                   nTransferedBytes, lastRet, checkErrors, unitVars>>

\* Receiver.readRingBuff from the completion of the DMA transfer: updates the
\* read pointer, writes it to ADDR_RD and returns
RdEnd(i) ==
    /\ capPc \in {"read", "drain"}
    /\ capIdx = i
    /\ rdXfer > 0
    /\ IF PtrAdvance(ringBuffRdPtr[i], rdXfer) = -1
       THEN /\ ProcessEnds("panic")
            /\ UNCHANGED <<ringBuffRdPtr, regRecvAddrRd, capIdx, rdXfer,
                           nBytesRead>>
       ELSE /\ ringBuffRdPtr' = [ringBuffRdPtr EXCEPT
                                    ![i] = PtrAdvance(ringBuffRdPtr[i], rdXfer)]
            /\ regRecvAddrRd' = [regRecvAddrRd EXCEPT
                                    ![i] = PtrAdvance(ringBuffRdPtr[i], rdXfer)]
            /\ RdReturn(i, rdXfer)
            /\ UNCHANGED fgPc
    /\ UNCHANGED <<captureEnable, captureDiscard, captureHostMemSize, capData,
                   capPosWr, capSize, regRecvActive, regRecvStatusActive,
                   regRecvAddrWr, regRecvErrs, devWritten, genVars, txRegVars,
                   genIdx, wrXfer, nTransferedBytes, lastRet, checkErrors,
                   unitVars>>

\* capture goroutine, Receivers.stop: Receiver.stop of receiver i writes 0 to
\* ACTIVE and goes to sleep (nothing for a receiver with capture disabled)
RecvStop(i) ==
    /\ capPc = "stop"
    /\ capIdx = i
    /\ IF captureEnable[i]
       THEN /\ regRecvActive' = [regRecvActive EXCEPT ![i] = 0]
            /\ capPc' = "stopSleep"
            /\ UNCHANGED capIdx
       ELSE /\ NextRecv(i, "drain")
            /\ UNCHANGED regRecvActive
    /\ UNCHANGED <<recvVars, regRecvStatusActive, regRecvAddrWr, regRecvAddrRd,
                   regRecvErrs, devWritten, rdXfer, nBytesRead, txVars, unitVars>>

\* Receiver.stop of receiver i after the sleep: fatal if STATUS_ACTIVE still
\* reads non-zero
RecvStopCheck(i) ==
    /\ capPc = "stopSleep"
    /\ capIdx = i
    /\ IF regRecvStatusActive[i] # 0
       THEN /\ ProcessEnds("fatal")
            /\ UNCHANGED capIdx
       ELSE /\ IF i + 1 < NumIfaces
               THEN capIdx' = i + 1 /\ capPc' = "stop"
               ELSE capIdx' = 0 /\ capPc' = "drain"
            /\ UNCHANGED fgPc
    /\ UNCHANGED <<recvVars, rxRegVars, rdXfer, nBytesRead, genVars, txRegVars,
                   genIdx, wrXfer, nTransferedBytes, lastRet, checkErrors,
                   unitVars>>

\* syncCapture.Wait() of StopCapture returns although the final drain of the
\* goroutine is still running
CaptureReturnedEarly == capPc \in {"drain", "done"}

\* syncCapture.Wait() of StopCapture returns: the goroutine has run its
\* deferred syncCapture.Done()
CaptureReturned == capPc = "done"

\* NetworkTester.StopCapture: the wait for the goroutine is over
StopCaptureWaitReturns ==
    /\ fgPc = "stopWait"
    /\ CaptureReturned
    /\ fgPc' = "checkRx"
    /\ UNCHANGED <<rxVars, genVars, txRegVars, genIdx, wrXfer, nTransferedBytes,
                   lastRet, checkErrors, unitVars>>

\* Receiver.checkError that looks at the meta FIFO bit only
RecvCheckErrorMetaOnly(i) ==
    IF Bit(regRecvErrs[i], 0) > 0 THEN Err("meta", i) ELSE Err("nil", -1)

\* Receiver.checkError: bit 0 of STATUS_ERRS is meta FIFO full, bit 1 is data
\* FIFO full
RecvCheckError(i) ==
    IF Bit(regRecvErrs[i], 0) > 0 THEN Err("meta", i)
    ELSE IF Bit(regRecvErrs[i], 1) > 0 THEN Err("data", i)
    ELSE Err("nil", -1)

\* Receivers.checkErrors: the first error in the order of nt.recvs
RECURSIVE RecvsCheckErrorsFrom(_)
RecvsCheckErrorsFrom(i) ==
    IF i = NumIfaces THEN Err("nil", -1)
    ELSE IF RecvCheckError(i).kind # "nil" THEN RecvCheckError(i)
    ELSE RecvsCheckErrorsFrom(i + 1)

\* Receivers.checkErrors(true): some receiver reports a full FIFO
RecvErrors == RecvsCheckErrorsFrom(0).kind # "nil"

\* NetworkTester.StopCapture: the error check and the return
StopCaptureCheckErrors ==
    /\ fgPc = "checkRx"
    /\ IF checkErrors /\ RecvErrors
       THEN ProcessEnds("fatal")
       ELSE fgPc' = "stopped" /\ capPc' = "none"
    /\ UNCHANGED <<recvVars, rxRegVars, capIdx, rdXfer, nBytesRead, genVars,
                   txRegVars, genIdx, wrXfer, nTransferedBytes, lastRet,
                   checkErrors, unitVars>>

\* NetworkTester.CheckErrors: generators first, then receivers; exit = false
CheckErrorsResult ==
    IF GensCheckErrorsFrom(0).kind # "nil" THEN GensCheckErrorsFrom(0)
    ELSE RecvsCheckErrorsFrom(0)

\* NetworkTester.CheckErrors, called between two operations of the tester
CheckErrors ==
    /\ fgPc \in {"created", "configured", "returned", "stopped"}
    /\ errResult.kind = "none"
    /\ errResult' = CheckErrorsResult
    /\ UNCHANGED <<maskVars, identVars, memVars,
                   extVars, taskVars, codecVars, traceVars, txVars, rxVars>>

(* --------------------------- capture hardware ------------------------- *)

\* the capture core may write to ring address (ADDR_WR + 1) mod size: it
\* never moves ADDR_WR onto ADDR_RD
DevRoom(i) == (regRecvAddrWr[i] + 1) % RingSize # regRecvAddrRd[i]

\* the capture core commits one block to its RX ring and advances ADDR_WR.
\* It does so while it is active: from ACTIVE = 1 until it has flushed its
\* FIFOs after ACTIVE = 0.
DevWrite(i) ==
    /\ regRecvStatusActive[i] = 1
    /\ devWritten[i] < MaxRxBytes
    /\ DevRoom(i)
    /\ regRecvAddrWr' = [regRecvAddrWr EXCEPT ![i] = (@ + 1) % RingSize]
    /\ devWritten' = [devWritten EXCEPT ![i] = @ + 1]
    /\ UNCHANGED <<recvVars, regRecvActive, regRecvStatusActive, regRecvAddrRd,
                   regRecvErrs, capVars, txVars, unitVars>>

\* the RX ring is full: the capture core's FIFOs run over and it flags the
\* error in STATUS_ERRS; the arriving traffic is not captured
DevFifoFull(i) ==
    /\ regRecvStatusActive[i] = 1
    /\ ~DevRoom(i)
    /\ regRecvErrs[i] = 0
    /\ regRecvErrs' = [regRecvErrs EXCEPT ![i] = 1]
    /\ UNCHANGED <<recvVars, regRecvActive, regRecvStatusActive, regRecvAddrWr,
                   regRecvAddrRd, devWritten, capVars, txVars, unitVars>>

\* the capture core has flushed its FIFOs after ACTIVE = 0 and becomes
\* inactive
DevInactive(i) ==
    /\ regRecvActive[i] = 0
    /\ regRecvStatusActive[i] = 1
    /\ regRecvStatusActive' = [regRecvStatusActive EXCEPT ![i] = 0]
    /\ UNCHANGED <<recvVars, regRecvActive, regRecvAddrWr, regRecvAddrRd,
                   regRecvErrs, devWritten, capVars, txVars, unitVars>>

(* -------------------------------- SpecRx ------------------------------ *)

InitRx == TraceIdle /\ AuxIdle /\ TxCreated /\ RxCreated

NextRx ==
    \/ \E i \in Ifaces, b \in BOOLEAN : EnableCapture(i, b)
    \/ \E i \in Ifaces, b \in BOOLEAN : SetCaptureDiscard(i, b)
    \/ \E i \in Ifaces, n \in HostMemSizes : SetCaptureHostMemSize(i, n)
    \/ \E b \in BOOLEAN : SetCheckErrors(b)
    \/ WriteConfig
    \/ StartCapture
    \/ \E i \in Ifaces : RecvStart(i)
    \/ StopCapture
    \/ CaptureSelectStop
    \/ CaptureSelectDefault
    \/ \E i \in Ifaces, dmaOk \in BOOLEAN : RdBegin(i, dmaOk)
    \/ \E i \in Ifaces : RdEnd(i)
    \/ \E i \in Ifaces : RecvStop(i)
    \/ \E i \in Ifaces : RecvStopCheck(i)
    \/ StopCaptureWaitReturns
    \/ StopCaptureCheckErrors
    \/ \E i \in Ifaces : DevWrite(i)
    \/ \E i \in Ifaces : DevFifoFull(i)
    \/ \E i \in Ifaces : DevInactive(i)

SpecRx == InitRx /\ [][NextRx]_vars

(* ------------------------------ SpecDuplex ---------------------------- *)

\* the capture goroutine has been launched and has not returned
CaptureAlive ==
    capPc \in {"start", "select", "read", "stop", "stopSleep", "drain"}

\* NetworkTester.StartReplay is called after StartCapture has returned: the
\* foreground enters the pre-fill loop while the capture goroutine runs
StartReplayCapturing ==
    /\ fgPc = "capturing"
    /\ fgPc' = "prefill"
    /\ genIdx' = 0
    /\ nTransferedBytes' = 0
    /\ UNCHANGED <<genVars, txRegVars, wrXfer, lastRet, checkErrors, unitVars,
                   rxVars>>

\* NetworkTester.StopCapture is called after StartReplay has returned
StopCaptureReplayed ==
    /\ fgPc = "returned"
    /\ CaptureAlive
    /\ fgPc' = "stopSend"
    /\ UNCHANGED <<rxVars, genVars, txRegVars, genIdx, wrXfer, nTransferedBytes,
                   lastRet, checkErrors, unitVars>>

\* the traces replayed while a capture runs
DuplexTraces == { tr \in Traces : GetSize(tr) <= 2 }

\* a capture that runs while the foreground replays; the foreground calls
\* WriteConfig only while no capture goroutine runs, and the DMA transfers
\* complete without an error
NextDuplex ==
    \/ \E g \in Ifaces, tr \in DuplexTraces : SetTrace(g, tr)
    \/ \E i \in Ifaces : EnableCapture(i, TRUE)
    \/ (~CaptureAlive /\ WriteConfig)
    \/ StartCapture
    \/ StartReplayCapturing
    \/ ReplayStep
    \/ StopCapture
    \/ StopCaptureReplayed
    \/ \E i \in Ifaces : RecvStart(i)
    \/ CaptureSelectStop
    \/ CaptureSelectDefault
    \/ \E i \in Ifaces : RdBegin(i, TRUE)
    \/ \E i \in Ifaces : RdEnd(i)
    \/ \E i \in Ifaces : RecvStop(i)
    \/ \E i \in Ifaces : RecvStopCheck(i)
    \/ StopCaptureWaitReturns
    \/ StopCaptureCheckErrors
    \/ \E g \in Ifaces : DevRead(g)
    \/ \E i \in Ifaces : DevWrite(i)
    \/ \E i \in Ifaces : DevInactive(i)

SpecDuplex == InitRx /\ [][NextDuplex]_vars

\* a step of the capture goroutine: its position or its transfer changes
CaptureTaskStep ==
    /\ CaptureAlive
    /\ (capPc' # capPc \/ capIdx' # capIdx \/ rdXfer' # rdXfer)

\* a step of the foreground inside StartReplay
ReplayTaskStep ==
    /\ fgPc \in {"prefill", "start", "refill", "settle", "stopRate", "check"}
    /\ (fgPc' # fgPc \/ genIdx' # genIdx \/ wrXfer' # wrXfer)

\* C26: while the capture task runs beside a foreground that replays and
\* checks errors (no WriteConfig), the capture task writes registers of the
\* receiver capture blocks only: a step of the capture task leaves every
\* software-written generator replay and rate-control register as it is, and
\* a step of the replay leaves the capture registers that software writes
\* (ACTIVE, ADDR_RD) as they are
C26_CaptureWritesRecvRegsOnly ==
    [][/\ CaptureTaskStep
            => UNCHANGED <<regGenAddrWr, regGenTraceSize, regGenStart,
                           regRateCtrlActive>>
       /\ (ReplayTaskStep /\ CaptureAlive)
            => UNCHANGED <<regRecvActive, regRecvAddrRd>>]_vars

\* C26 witness: the capture task has released ring space (written ADDR_RD)
\* while the replay is refilling a started generator under rate control
C26_Witness ==
    /\ CaptureAlive
    /\ fgPc = "refill"
    /\ regRateCtrlActive # {}
    /\ \E g \in Ifaces : regGenStart[g] = 1 /\ regGenAddrWr[g] # 0
    /\ \E i \in Ifaces : regRecvActive[i] = 1 /\ regRecvAddrRd[i] # 0

(* ------------------------------ SpecTasks ----------------------------- *)

\* the goroutines launched by StartCapture that have not returned
AliveTasks == { t \in Tasks : taskPc[t] # "none" }

TaskRest ==
    UNCHANGED <<maskVars, errResult, identVars, memVars, codecVars, traceVars,
                extVars, txVars, rxVars>>

\* NetworkTester.StartCapture: makes a new stop channel, adds one to the
\* wait group and launches a goroutine, whatever ran before; it returns at
\* once
StartCaptureTask ==
    /\ fgTask = "idle"
    /\ \E t \in Tasks :
          /\ taskPc[t] = "none"
          /\ \A u \in Tasks : u < t => taskPc[u] # "none"
          /\ taskPc' = [taskPc EXCEPT ![t] = "start"]
    /\ stopCapture' = "chan"
    /\ syncCapture' = syncCapture + 1
    /\ UNCHANGED <<fgTask, dmaIssued>>
    /\ TaskRest

\* NetworkTester.StopCapture is called: the foreground blocks in the send on
\* nt.stopCapture (for ever on a nil channel)
StopCaptureTask ==
    /\ fgTask = "idle"
    /\ fgTask' = "send"
    /\ UNCHANGED <<taskPc, stopCapture, syncCapture, dmaIssued>>
    /\ TaskRest

\* NetworkTester.StopCapture: syncCapture.Wait() returns once the counter is
\* zero, then the error check and the return
StopCaptureTaskReturns ==
    /\ fgTask = "wait"
    /\ syncCapture = 0
    /\ fgTask' = "idle"
    /\ UNCHANGED <<taskPc, stopCapture, syncCapture, dmaIssued>>
    /\ TaskRest

\* NetworkTester.StartReplay: the foreground writes to the TX rings through
\* nt.pcieDMAWrite (H2C)
StartReplayTask ==
    /\ fgTask = "idle"
    /\ fgTask' = "replay"
    /\ dmaIssued' = dmaIssued \cup {<<"foreground", "H2C">>}
    /\ UNCHANGED <<taskPc, stopCapture, syncCapture>>
    /\ TaskRest

\* NetworkTester.StartReplay returns
ReplayTaskReturns ==
    /\ fgTask = "replay"
    /\ fgTask' = "idle"
    /\ UNCHANGED <<taskPc, stopCapture, syncCapture, dmaIssued>>
    /\ TaskRest

\* capture goroutine t: nt.recvs.start()
TaskRecvsStart(t) ==
    /\ taskPc[t] = "start"
    /\ taskPc' = [taskPc EXCEPT ![t] = "select"]
    /\ UNCHANGED <<fgTask, stopCapture, syncCapture, dmaIssued>>
    /\ TaskRest

\* capture goroutine t, select: it receives the stop request of the
\* foreground, whose send completes
TaskSelectStop(t) ==
    /\ taskPc[t] = "select"
    /\ fgTask = "send"
    /\ stopCapture = "chan"
    /\ fgTask' = "wait"
    /\ taskPc' = [taskPc EXCEPT ![t] = "stop"]
    /\ UNCHANGED <<stopCapture, syncCapture, dmaIssued>>
    /\ TaskRest

\* capture goroutine t, select: default case, then nt.recvs.readRingBuffs()
\* reads the RX rings through nt.pcieDMARead (C2H) and moves the read
\* pointers
TaskReadRingBuffs(t) ==
    /\ taskPc[t] = "select"
    /\ fgTask # "send"
    /\ taskPc' = [taskPc EXCEPT ![t] = "read"]
    /\ dmaIssued' = dmaIssued \cup {<<"capture", "C2H">>}
    /\ UNCHANGED <<fgTask, stopCapture, syncCapture>>
    /\ TaskRest

\* capture goroutine t: readRingBuffs returns, back at the loop head
TaskReadReturns(t) ==
    /\ taskPc[t] = "read"
    /\ taskPc' = [taskPc EXCEPT ![t] = "select"]
    /\ UNCHANGED <<fgTask, stopCapture, syncCapture, dmaIssued>>
    /\ TaskRest

\* capture goroutine t: nt.recvs.stop(), then the drain loops (C2H)
TaskRecvsStop(t) ==
    /\ taskPc[t] = "stop"
    /\ taskPc' = [taskPc EXCEPT ![t] = "drain"]
    /\ dmaIssued' = dmaIssued \cup {<<"capture", "C2H">>}
    /\ UNCHANGED <<fgTask, stopCapture, syncCapture>>
    /\ TaskRest

\* capture goroutine t returns: the deferred syncCapture.Done()
TaskReturns(t) ==
    /\ taskPc[t] = "drain"
    /\ taskPc' = [taskPc EXCEPT ![t] = "none"]
    /\ syncCapture' = syncCapture - 1
    /\ UNCHANGED <<fgTask, stopCapture, dmaIssued>>
    /\ TaskRest

InitTasks == InitRx

NextTasks ==
    \/ StartCaptureTask
    \/ StopCaptureTask
    \/ StopCaptureTaskReturns
    \/ StartReplayTask
    \/ ReplayTaskReturns
    \/ \E t \in Tasks : TaskRecvsStart(t)
    \/ \E t \in Tasks : TaskSelectStop(t)
    \/ \E t \in Tasks : TaskReadRingBuffs(t)
    \/ \E t \in Tasks : TaskReadReturns(t)
    \/ \E t \in Tasks : TaskRecvsStop(t)
    \/ \E t \in Tasks : TaskReturns(t)

SpecTasks == InitTasks /\ [][NextTasks]_vars

\* the DMA channels are used by their owners only: H2C by the foreground
\* replay, C2H by capture goroutines
DmaOwners == dmaIssued \subseteq {<<"foreground", "H2C">>, <<"capture", "C2H">>}

\* C27: for any sequence of StartCapture / StopCapture calls of the
\* foreground, at most one capture task is alive (so at most one task issues
\* C2H transfers and moves the receivers' read pointers), the foreground
\* issues no C2H transfer, and H2C transfers are issued by the foreground
\* replay only
C27_OneCaptureTask ==
    /\ Cardinality(AliveTasks) <= 1
    /\ DmaOwners

(* -------------------------------- SpecErr ----------------------------- *)

\* values of RATE_CTRL_STATUS: bit 0 (timing error) and another bit
StatusValues == 0 .. 3

\* values of STATUS_ERRS: bits 0 and 1 (FIFO full) and another bit
ErrsValues == 0 .. 4

\* where the error checks are entered: the error check of StartReplay, the
\* STATUS_ACTIVE check of Receiver.stop, the error check of StopCapture, and
\* a user's CheckErrors after a replay
ErrEntry ==
    \/ fgPc = "check" /\ capPc = "none" /\ capIdx = 0
    \/ fgPc = "stopWait" /\ capPc = "stopSleep" /\ capIdx \in Ifaces
            /\ captureEnable[capIdx]
    \/ fgPc = "checkRx" /\ capPc = "done" /\ capIdx = 0
    \/ fgPc = "returned" /\ capPc = "none" /\ capIdx = 0

\* the error checks are entered with the flag either way and with any value
\* in the status registers of the device
InitErr ==
    /\ TraceIdle
    /\ AuxIdle
    /\ trace = [g \in Ifaces |-> NoTrace]
    /\ nBytesTransfered = [g \in Ifaces |-> 0]
    /\ ringBuffWrPtr = [g \in Ifaces |-> 0]
    /\ checkErrors \in BOOLEAN
    /\ regGenAddrWr = [g \in Ifaces |-> 0]
    /\ regGenAddrRd = [g \in Ifaces |-> 0]
    /\ regGenTraceSize = [g \in Ifaces |-> 0]
    /\ regGenStart = [g \in Ifaces |-> 0]
    /\ regRateCtrlActive = {}
    /\ regRateCtrlStatus \in [Ifaces -> StatusValues]
    /\ devConsumed = [g \in Ifaces |-> 0]
    /\ fgPc \in {"check", "stopWait", "checkRx", "returned"}
    /\ genIdx = 0
    /\ wrXfer = 0
    /\ nTransferedBytes = 0
    /\ lastRet = [g \in Ifaces |-> 0]
    /\ captureEnable \in [Ifaces -> BOOLEAN]
    /\ captureDiscard = [i \in Ifaces |-> FALSE]
    /\ captureHostMemSize = [i \in Ifaces |-> CAPTURE_HOST_MEM_SIZE_DEFAULT]
    /\ ringBuffRdPtr = [i \in Ifaces |-> 0]
    /\ capData = [i \in Ifaces |-> << >>]
    /\ capPosWr = [i \in Ifaces |-> 0]
    /\ capSize = [i \in Ifaces |-> 0]
    /\ regRecvActive = [i \in Ifaces |-> 0]
    /\ regRecvStatusActive \in [Ifaces -> {0, 1}]
    /\ regRecvAddrWr = [i \in Ifaces |-> 0]
    /\ regRecvAddrRd = [i \in Ifaces |-> 0]
    /\ regRecvErrs \in [Ifaces -> ErrsValues]
    /\ devWritten = [i \in Ifaces |-> 0]
    /\ capPc \in {"none", "stopSleep", "done"}
    /\ capIdx \in Ifaces
    /\ rdXfer = 0
    /\ nBytesRead = [i \in Ifaces |-> 0]
    /\ ErrEntry

NextErr ==
    \/ ReplayCheckErrors
    \/ \E i \in Ifaces : RecvStopCheck(i)
    \/ StopCaptureCheckErrors
    \/ CheckErrors

SpecErr == InitErr /\ [][NextErr]_vars

(* --------------------------- claims: TX ring -------------------------- *)

\* bytes buffered in the TX ring of generator g
TxBuffered(g) == nBytesTransfered[g] - devConsumed[g]

TxPointersOk ==
    \A g \in Ifaces :
        /\ ringBuffWrPtr[g] \in 0 .. (RingSize - 1)
        /\ regGenAddrRd[g] \in 0 .. (RingSize - 1)
        /\ ringBuffWrPtr[g] = regGenAddrRd[g] => TxBuffered(g) = 0
        /\ TxBuffered(g) <= RingSize - 1

\* a step of writeRingBuff that transferred bytes leaves wrPtr # ADDR_RD
TxTransferLeavesGap ==
    \A g \in Ifaces :
        nBytesTransfered'[g] > nBytesTransfered[g]
            => ringBuffWrPtr'[g] # regGenAddrRd'[g]

\* C1: under any interleaving of writeRingBuff steps with the device
\* advancing ADDR_RD, the host write pointer stays in [0, size), a step that
\* transferred bytes never leaves the write pointer equal to the device read
\* pointer, and write == read always means that the TX ring is empty
C1_TxRingDiscipline == []TxPointersOk /\ [][TxTransferLeavesGap]_vars

\* C1 witness: a transfer wrapped the write pointer to 0 after the device
\* had advanced, and the ring holds data
C1_Witness ==
    \E g \in Ifaces :
        /\ lastRet[g] > 0
        /\ ringBuffWrPtr[g] = 0
        /\ nBytesTransfered[g] >= RingSize
        /\ regGenAddrRd[g] > 0
        /\ TxBuffered(g) > 0

\* C6: a StartReplay ends with bytes_transferred of every generator bound to
\* a trace equal to nRepeats * trace-bytes (a 1-block trace with nRepeats = 3
\* ends at 3 blocks), whether it returns or the process dies in a Go panic
C6_ReplayEndsWithAllBytes ==
    fgPc \in {"returned", "panic"} =>
        \A g \in Ifaces :
            trace[g] # NoTrace => nBytesTransfered[g] = GetSize(trace[g])

\* generator g is about to decide a transfer of transferSize bytes with
\* trace bytes outstanding, and the step is a step of writeRingBuff
WrDecides(g) ==
    /\ fgPc \in {"prefill", "refill"}
    /\ genIdx = g
    /\ wrXfer = 0
    /\ trace[g] # NoTrace
    /\ nBytesTransfered[g] < GetSize(trace[g])
    /\ (genIdx' # genIdx \/ wrXfer' # wrXfer \/ fgPc' # fgPc)

WrWanted(g) ==
    WrTransferSize(GetSize(trace[g]) - nBytesTransfered[g], ringBuffWrPtr[g])

\* the transfer would end with write_ptr == read_ptr with data buffered
WouldMakeEqual(g) ==
    /\ regGenAddrRd[g] # ringBuffWrPtr[g]
    /\ (ringBuffWrPtr[g] + WrWanted(g)) % RingSize = regGenAddrRd[g]

\* the transfer would move write_ptr onto or over read_ptr with data buffered
WouldReachOrPass(g) ==
    /\ regGenAddrRd[g] # ringBuffWrPtr[g]
    /\ \E k \in 1 .. WrWanted(g) :
           (ringBuffWrPtr[g] + k) % RingSize = regGenAddrRd[g]

\* while StartReplay runs, generator g has trace bytes outstanding
Outstanding(g) ==
    /\ fgPc \in {"prefill", "start", "refill"}
    /\ trace[g] # NoTrace
    /\ nBytesTransfered[g] < GetSize(trace[g])

\* a generator whose last writeRingBuff returned 0 with trace bytes
\* outstanding gets a later writeRingBuff that transfers bytes
TxResumes ==
    \A g \in Ifaces :
        (Outstanding(g) /\ lastRet[g] = 0) ~> (lastRet[g] > 0)

C10_RateCtrlAfterStart ==
    /\ [][regRateCtrlActive = {} /\ regRateCtrlActive' # {}
            => /\ fgPc = "start"
               /\ genIdx = NumIfaces
               /\ \A g \in Ifaces : trace[g] # NoTrace => regGenStart[g] = 1]_vars
    /\ [](regRateCtrlActive # {} =>
            \A g \in Ifaces : trace[g] # NoTrace => regGenStart[g] = 1)
    /\ [][\A g \in Ifaces :
            regGenStart'[g] # regGenStart[g] /\ regGenStart'[g] = 1
                => regRateCtrlActive = {} /\ regRateCtrlActive' = {}]_vars

\* C10 witness: rate control is active for two trace-bound generators
C10_Witness ==
    /\ regRateCtrlActive = Ifaces
    /\ fgPc = "refill"
    /\ \A g \in Ifaces : regGenStart[g] = 1

(* --------------------------- claims: RX ring -------------------------- *)

\* bytes receiver i has taken out of its RX ring: those fetched by DMA, less
\* the transfer whose pointer update is still to come
RxAcked(i) ==
    capSize[i] - (IF capIdx = i /\ capPc \in {"read", "drain"} THEN rdXfer ELSE 0)

RxPointersOk ==
    \A i \in Ifaces :
        /\ ringBuffRdPtr[i] \in 0 .. (RingSize - 1)
        /\ regRecvAddrRd[i] \in 0 .. (RingSize - 1)
        /\ captureEnable[i] =>
            /\ capSize[i] <= devWritten[i]
            /\ ringBuffRdPtr[i] = RxAcked(i) % RingSize
            /\ devWritten[i] - RxAcked(i) <= RingSize - 1

\* a step of readRingBuff that DMA-reads t bytes reads the ring addresses
\* [read_ptr, read_ptr + t), and they hold the t oldest bytes the device has
\* written and the host has not read
RxReadInsideWritten ==
    \A i \in Ifaces :
        capSize'[i] > capSize[i] =>
            LET t == capSize'[i] - capSize[i]
            IN  /\ ringBuffRdPtr[i] + t <= RingSize
                /\ capSize[i] + t <= devWritten[i]
                /\ \A k \in 0 .. (t - 1) :
                       RingAt(devWritten[i], ringBuffRdPtr[i] + k) = capSize[i] + k

\* C2: for every readRingBuff step, periodic or read_all, under any
\* interleaving with the device advancing ADDR_WR, the range
\* [read_ptr, read_ptr + transfer) that is DMA-read lies inside the region the
\* device has written and the host has not read; the host read pointer never
\* passes the device write pointer and stays in [0, size)
C2_RxReadInsideWritten == []RxPointersOk /\ [][RxReadInsideWritten]_vars

\* C2 witness: a read_all step has read up to the end of the ring while the
\* device write pointer had wrapped around
C2_Witness ==
    \E i \in Ifaces :
        /\ capPc = "drain"
        /\ capIdx = i
        /\ rdXfer > 0
        /\ ringBuffRdPtr[i] + rdXfer = RingSize
        /\ regRecvAddrWr[i] < ringBuffRdPtr[i]
        /\ devWritten[i] > RingSize

\* C3: when StopCapture returns, for every capture-enabled receiver the host
\* read pointer and the value last written to ADDR_RD equal the ADDR_WR of
\* the device, which has become inactive, and the RX ring is empty
C3_StoppedRingEmpty ==
    fgPc = "stopped" =>
        \A i \in Ifaces :
            captureEnable[i] =>
                /\ regRecvStatusActive[i] = 0
                /\ ringBuffRdPtr[i] = regRecvAddrWr[i]
                /\ regRecvAddrRd[i] = regRecvAddrWr[i]
                /\ capSize[i] = devWritten[i]

\* C3 witness: StopCapture has returned after a final drain that read less
\* than a periodic granule from a ring the device had wrapped around
C3_Witness ==
    /\ fgPc = "stopped"
    /\ \E i \in Ifaces :
        /\ captureEnable[i]
        /\ devWritten[i] > RingSize
        /\ ringBuffRdPtr[i] % RING_BUFF_RD_TRANSFER_SIZE_MIN # 0

\* C4: in retained mode, when StopCapture has returned, the bytes of the
\* capture buffer from offset 0 to its write offset are the bytes the device
\* wrote into the RX ring since the configure, in order, none lost,
\* duplicated or reordered
C4_CaptureIsDeviceStream ==
    fgPc = "stopped" =>
        \A i \in Ifaces :
            captureEnable[i] /\ ~captureDiscard[i] =>
                /\ capPosWr[i] = devWritten[i]
                /\ Slice(capData[i], 0, capPosWr[i]) = Iota(devWritten[i])

\* C8: when StartCapture returns, ACTIVE of every capture-enabled receiver
\* has been written to 1
C8_ArmedWhenStartCaptureReturns ==
    fgPc = "capturing" =>
        \A i \in Ifaces : captureEnable[i] => regRecvActive[i] = 1

\* C9: after the stop signal is consumed no periodic drain is started;
\* capture is deasserted only after the periodic loop has exited; the final
\* read_all drain starts only after the deassert on all enabled receivers;
\* the error check and the return of StopCapture happen only after the final
\* drain of every receiver has returned 0
C9_StopOrdering ==
    /\ [](fgPc \in {"stopWait", "checkRx"} => capPc \notin {"start", "select", "read"})
    /\ [][\A i \in Ifaces :
            regRecvActive[i] = 1 /\ regRecvActive'[i] = 0
                => capPc = "stop" /\ fgPc = "stopWait"]_vars
    /\ [](capPc = "drain" =>
            \A i \in Ifaces : captureEnable[i] => regRecvActive[i] = 0)
    /\ [](fgPc \in {"checkRx", "stopped"} =>
            \A i \in Ifaces : nBytesRead[i] = 0)

\* C9 witness: StopCapture has returned from a capture on all receivers whose
\* final drain had data to read
C9_Witness ==
    /\ fgPc = "stopped"
    /\ \A i \in Ifaces :
        /\ captureEnable[i]
        /\ nBytesRead[i] = 0
        /\ devWritten[i] > 0
        /\ ringBuffRdPtr[i] % RING_BUFF_RD_TRANSFER_SIZE_MIN # 0

(* ------------------------- claims: stop of replay --------------------- *)

\* the replay cores' status, read for every trace-bound generator
SomeBoundGenActive == \E g \in Ifaces : trace[g] # NoTrace /\ IsActive(g)

\* C11: in StartReplay RATE_CTRL_ACTIVE is cleared only after a poll in which
\* no trace-bound generator reported active (the refill loop is left on such
\* a poll only, and the clearing write is issued after the loop and the
\* settle), and when StartReplay has returned the register is 0
C11_RateCtrlClearedAfterIdlePoll ==
    /\ [][(fgPc # "settle" /\ fgPc' = "settle")
            => (fgPc = "refill" /\ ~SomeBoundGenActive)]_vars
    /\ [][(fgPc \in {"prefill", "start", "refill", "settle", "check"}
              /\ regRateCtrlActive # {} /\ regRateCtrlActive' = {})
            => fgPc = "settle"]_vars
    /\ [][(fgPc # "check" /\ fgPc' = "check")
            => (fgPc = "settle" /\ regRateCtrlActive' = {})]_vars
    /\ [](fgPc \in {"check", "returned"} => regRateCtrlActive = {})

\* C11 witness: StartReplay has returned after two generators replayed their
\* traces to the end
C11_Witness ==
    /\ fgPc = "returned"
    /\ \A g \in Ifaces :
            trace[g] # NoTrace /\ devConsumed[g] = regGenTraceSize[g]
                /\ devConsumed[g] > 1

(* --------------------- claims: pointers and DMA ----------------------- *)

\* a write of ADDR_WR by writeRingBuff follows the completed H2C DMA of the
\* granule and covers that granule
TxPointerAfterDma ==
    \A g \in Ifaces :
        (regGenAddrWr'[g] # regGenAddrWr[g] /\ fgPc' # "configured") =>
            /\ genIdx = g
            /\ wrXfer > 0
            /\ regGenAddrWr'[g] = (regGenAddrWr[g] + wrXfer) % RingSize

\* a write of ADDR_RD by readRingBuff follows the C2H DMA call of the
\* granule and covers that granule
RxPointerAfterDma ==
    \A i \in Ifaces :
        (regRecvAddrRd'[i] # regRecvAddrRd[i] /\ fgPc' # "configured") =>
            /\ capIdx = i
            /\ rdXfer > 0
            /\ regRecvAddrRd'[i] = (regRecvAddrRd[i] + rdXfer) % RingSize

\* the bytes ADDR_RD has released to the capture core have been transferred
\* to the host (seen in the capture buffer of a retaining receiver)
RxReleasedIsTransferred ==
    \A i \in Ifaces :
        (captureEnable[i] /\ ~captureDiscard[i] /\ RxAcked(i) <= Len(capData[i])) =>
            Slice(capData[i], 0, RxAcked(i)) = Iota(RxAcked(i))

\* C13: for every granule the generator writes ADDR_WR after the H2C DMA of
\* the granule has completed and the receiver writes ADDR_RD after the C2H
\* DMA of the granule has completed, so that the device never sees a pointer
\* that covers bytes not yet transferred
C13_PointerAfterDma ==
    /\ [][TxPointerAfterDma]_vars
    /\ [][RxPointerAfterDma]_vars
    /\ []RxReleasedIsTransferred

\* a failed H2C DMA write ends the process with the generator as it was
TxDmaErrorFatal ==
    \A g \in Ifaces :
        WrBegin(g, FALSE) =>
            /\ fgPc' = "fatal"
            /\ UNCHANGED <<ringBuffWrPtr, regGenAddrWr, nBytesTransfered>>

\* a failed C2H DMA read ends the process with the receiver and its capture
\* as they were
RxDmaErrorFatal ==
    \A i \in Ifaces :
        (RdBegin(i, FALSE) /\ rdXfer' > 0) =>
            /\ capPc' = "fatal"
            /\ UNCHANGED <<ringBuffRdPtr, regRecvAddrRd, capSize, capPosWr>>

\* once the process has ended on a fatal error the host moves no pointer
DeadHostIsStill ==
    /\ fgPc = "fatal" =>
            UNCHANGED <<fgPc, ringBuffWrPtr, regGenAddrWr, nBytesTransfered>>
    /\ capPc = "fatal" =>
            UNCHANGED <<capPc, ringBuffRdPtr, regRecvAddrRd, capSize, capPosWr>>

\* C14: a DMA transfer that returns an error is fatal in both directions:
\* after a failed H2C write the generator advances neither write_ptr, ADDR_WR
\* nor bytes_transferred, and after a failed C2H read the receiver advances
\* neither read_ptr nor ADDR_RD and the capture does not count the granule
C14_DmaErrorFatal ==
    /\ [][TxDmaErrorFatal]_vars
    /\ [][RxDmaErrorFatal]_vars
    /\ [][DeadHostIsStill]_vars

(* ----------------------- claims: error handling ----------------------- *)

\* the process ends
Aborts == fgPc' \in {"fatal", "panic"}

\* the error check of StartReplay ends the process iff the flag is on and
\* some generator reports a timing error, and returns otherwise
ReplayCheckDecides ==
    (fgPc = "check" /\ fgPc' # "check") =>
        /\ Aborts <=> (checkErrors /\ \E g \in Ifaces : regRateCtrlStatus[g] % 2 = 1)
        /\ ~Aborts <=> fgPc' = "returned"

\* the error check of StopCapture ends the process iff the flag is on and
\* some receiver reports a full FIFO, and returns otherwise
CaptureCheckDecides ==
    (fgPc = "checkRx" /\ fgPc' # "checkRx") =>
        /\ Aborts <=> (checkErrors /\ \E i \in Ifaces : regRecvErrs[i] % 4 # 0)
        /\ ~Aborts <=> fgPc' = "stopped"

\* StopCapture, blocked in its wait, is aborted by nothing but its own error
\* check
StopCaptureAbortsInCheckOnly ==
    (fgPc \in {"stopSend", "stopWait", "checkRx"} /\ Aborts) => fgPc = "checkRx"

\* Receiver.stop ends the process, whatever the flag, when the capture core
\* still reports active after the sleep
StopAbortsOnActive ==
    (capPc = "stopSleep" /\ capPc' # "stopSleep") =>
        (Aborts <=> regRecvStatusActive[capIdx] # 0)

Least(S) == CHOOSE x \in S : \A y \in S : x <= y

\* the generators whose rate-control status has bit 0 set
GensInError == { g \in Ifaces : regRateCtrlStatus[g] % 2 = 1 }

\* the receivers whose error status has bit 0 or bit 1 set
RecvsInError == { i \in Ifaces : regRecvErrs[i] % 4 # 0 }

\* what a scan of the generators and then of the receivers has to return
FirstError ==
    IF GensInError # {} THEN Err("timing", Least(GensInError))
    ELSE IF RecvsInError # {}
    THEN Err(IF regRecvErrs[Least(RecvsInError)] % 2 = 1 THEN "meta" ELSE "data",
             Least(RecvsInError))
    ELSE Err("nil", -1)

RefWrTransfer(outstanding, wrPtr) ==
    Least({outstanding, RING_BUFF_WR_TRANSFER_SIZE_MAX, RingSize - wrPtr})

\* reference decision of a write step: whether the step transfers
RefWrProceeds(rdPtr, wrPtr, transfer) ==
    \/ rdPtr = wrPtr
    \/ rdPtr > wrPtr /\ (rdPtr - wrPtr) > transfer
    \/ rdPtr < wrPtr /\ ~(rdPtr = 0 /\ wrPtr + transfer = RingSize)

\* the step is the first half of a writeRingBuff call of the trace-bound
\* generator g whose DMA transfer, if any, completes without an error
WrStepDecides(g) ==
    /\ fgPc \in {"prefill", "refill"}
    /\ genIdx = g
    /\ wrXfer = 0
    /\ trace[g] # NoTrace
    /\ (genIdx' # genIdx \/ wrXfer' # wrXfer \/ fgPc' # fgPc)
    /\ fgPc' # "fatal"

\* the step does what the reference decision says
WrStepAsReference(g) ==
    LET outstanding == GetSize(trace[g]) - nBytesTransfered[g]
        transfer == RefWrTransfer(outstanding, ringBuffWrPtr[g])
    IN  IF transfer > 0 /\ RefWrProceeds(regGenAddrRd[g], ringBuffWrPtr[g], transfer)
        THEN wrXfer' = transfer /\ fgPc' = fgPc
        ELSE wrXfer' = 0 /\ lastRet'[g] = 0 /\ genIdx' = g + 1

\* C29: a single writeRingBuff step matches the reference decision: the
\* transfer is min(outstanding, W_MAX, size - write_ptr); the step transfers
\* exactly that many bytes if read = write, or read > write and
\* read - write > transfer, or read < write and not (read = 0 and
\* write + transfer = size), and returns 0 otherwise; the write pointer
\* moves on by the transfer and wraps to 0 at the end of the ring
C29_WriteStepMatchesReference ==
    [][\A g \in Ifaces :
          /\ WrStepDecides(g) => WrStepAsReference(g)
          /\ (genIdx = g /\ wrXfer > 0 /\ wrXfer' = 0)
                => /\ ringBuffWrPtr'[g] = (ringBuffWrPtr[g] + wrXfer) % RingSize
                   /\ lastRet'[g] = wrXfer]_vars

\* reference decision of a read step: the transfer size
RefRdTransfer(readAll, rdPtr, wrPtr) ==
    IF readAll /\ rdPtr < wrPtr THEN wrPtr - rdPtr
    ELSE IF readAll /\ rdPtr > wrPtr THEN RingSize - rdPtr
    ELSE Least({RING_BUFF_RD_TRANSFER_SIZE_MIN, RingSize - rdPtr})

\* reference decision of a read step: whether the step transfers
RefRdProceeds(rdPtr, wrPtr, transfer) ==
    /\ rdPtr # wrPtr
    /\ rdPtr < wrPtr => (wrPtr - rdPtr) >= transfer

\* the step is the first half of a readRingBuff call of the capturing
\* receiver i, which finds room in the host memory of its capture
RdStepDecides(i) ==
    /\ capPc \in {"read", "drain"}
    /\ capIdx = i
    /\ rdXfer = 0
    /\ captureEnable[i]
    /\ (capPc' # capPc \/ capIdx' # capIdx \/ rdXfer' # rdXfer
            \/ nBytesRead' # nBytesRead)
    /\ capPc' \notin {"panic", "fatal"}

MaxDrainSteps == 4

\* NetworkTester.capture, final drain loop of one receiver: the number of
\* readRingBuff(true) calls that transfer before one returns 0, with the
\* device write pointer at wrPtr (at most fuel calls are followed)
RECURSIVE DrainTransfers(_, _, _)
DrainTransfers(rdPtr, wrPtr, fuel) ==
    LET transferSize == RdTransferSize(TRUE, rdPtr, wrPtr)
    IN  IF fuel = 0 \/ ~RdDoTransfer(rdPtr, wrPtr, transferSize) THEN 0
        ELSE 1 + DrainTransfers(PtrAdvance(rdPtr, transferSize), wrPtr,
                                fuel - 1)

NextTxFair ==
    \/ \E g \in Ifaces, tr \in Traces : SetTrace(g, tr)
    \/ \E b \in BOOLEAN : SetCheckErrors(b)
    \/ WriteConfig
    \/ StartReplay
    \/ ReplayStep
    \/ \E g \in Ifaces : DevRead(g)
    \/ \E g \in Ifaces : DevTimingError(g)

SpecTxFair ==
    /\ InitTx
    /\ [][NextTxFair]_vars
    /\ WF_vars(ReplayStep)
    /\ \A g \in Ifaces : WF_vars(DevRead(g))

\* the pre-fill loop has ended on a round in which every generator returned
\* 0, its trace being exhausted or its next granule refused, and no
\* generator has been started
PrefillEnded ==
    /\ fgPc = "start"
    /\ genIdx = 0
    /\ \A g \in Ifaces :
          /\ lastRet[g] = 0
          /\ regGenStart[g] = 0
          /\ trace[g] # NoTrace =>
                LET outstanding == GetSize(trace[g]) - nBytesTransfered[g]
                IN  \/ outstanding = 0
                    \/ ~WrDoTransfer(regGenAddrRd[g], ringBuffWrPtr[g],
                            WrTransferSize(outstanding, ringBuffWrPtr[g]))

\* C32: the pre-fill loop of StartReplay terminates for every set of bound
\* traces: with the device read pointers frozen, repeated writeRingBuffs
\* reaches a round in which every generator returns 0 (trace exhausted or
\* next granule refused), and no generator is started before that round
C32_PrefillTerminates == (fgPc = "prefill") ~> PrefillEnded

(* ----------------------- records of a capture, by bit ----------------- *)

\* bit n of the little-endian 64-bit word at offset pos of data
WordBit(data, pos, n) == (data[pos + (n \div 8) + 1] \div (2 ^ (n % 8))) % 2

\* the value of bits lo .. hi of the word at offset pos of data
RECURSIVE WordField(_, _, _, _)
WordField(data, pos, lo, hi) ==
    IF hi < lo THEN 0
    ELSE WordBit(data, pos, lo) + 2 * WordField(data, pos, lo + 1, hi)

\* n rounded up to a multiple of 8
RoundUp8(n) == ((n + 7) \div 8) * 8

\* capture length of the record at offset pos
RecordCapLen(c, pos) ==
    LET wirelen == WordField(c.data, pos, 53, 63)
    IN  IF wirelen < c.maxLenCapture THEN wirelen ELSE c.maxLenCapture

\* offset of the k-th record: every record takes 8 bytes of meta data and
\* its capture length rounded up to a multiple of 8
RECURSIVE RecordOffset(_, _)
RecordOffset(c, k) ==
    IF k = 1 THEN 0
    ELSE LET prev == RecordOffset(c, k - 1)
         IN  prev + 8 + RoundUp8(RecordCapLen(c, prev))

\* C33: record stepping and field extraction of GetPackets: the offset
\* moves on by 8 + caplen when caplen % 8 = 0 and by 16 + caplen - caplen % 8
\* otherwise (8 plus caplen rounded up to a multiple of 8), and the meta word
\* is split as bits 0..23 latency ticks, bit 24 has_latency, bits 25..52
\* inter-arrival cycles, bits 53..63 wire length, with
\* caplen = min(wire length, max_caplen)
C33_SteppingAndFields ==
    pkts.end = "return" =>
        /\ \A caplen \in 0 .. 130 :
              NextPosRd(8, caplen) = 8 + 8 + RoundUp8(caplen)
        /\ \A k \in 1 .. Len(pkts.pkts) :
              LET pos == RecordOffset(capture, k)
                  pkt == pkts.pkts[k]
                  caplen == RecordCapLen(capture, pos)
              IN  /\ pkt.LenWire = WordField(capture.data, pos, 53, 63)
                  /\ pkt.HasLatency = (WordBit(capture.data, pos, 24) = 1)
                  /\ pkt.HasLatency =>
                        pkt.Latency = WordField(capture.data, pos, 0, 23)
                                          * capture.tickPeriodLatency
                  /\ pkt.ArrivalTime = WordField(capture.data, pos, 25, 52)
                  /\ pkt.Data = [j \in 1 .. caplen |->
                                    capture.data[pos + 8 + j]]

\* C33 witness: three records decoded, the first with a capture length of
\* 60 (padded to 64) and the second with one of 64 (no padding), so that
\* the third record starts at offset 144
C33_Witness ==
    /\ pkts.end = "return"
    /\ Len(pkts.pkts) = 3
    /\ Len(pkts.pkts[1].Data) = 60
    /\ Len(pkts.pkts[2].Data) = 64
    /\ RecordOffset(capture, 3) = 144
    /\ pkts.pkts[3].LenWire = 128
    /\ pkts.pkts[3].HasLatency
    /\ pkts.pkts[2].ArrivalTime > 16777215

(* ---------------------------- SpecCodecRaw ---------------------------- *)

\* the records of the packets from the k-th on, with no sentinel
RECURSIVE EncodeRecordsFrom(_, _, _)
EncodeRecordsFrom(qs, k, maxLen) ==
    IF k > Len(qs) THEN << >>
    ELSE EncodePacket(qs[k], maxLen) \o EncodeRecordsFrom(qs, k + 1, maxLen)

\* a retaining capture after StopCapture into which the receiver has
\* drained up to MaxPkts complete records and no sentinel: captureCreate
\* has zeroed the host memory, the records lie in front of the write
\* position, and memory is left behind it
InitCodecRaw ==
    /\ TraceIdle
    /\ MaskIdle
    /\ errResult = Err("none", -1)
    /\ IdentIdle
    /\ MemIdle
    /\ TaskIdle
    /\ ExtIdle
    /\ TxCreated
    /\ RxCreated
    /\ pkts = [end |-> "none", pkts |-> << >>]
    /\ \E n \in 0 .. MaxPkts, p \in Patterns, maxLen \in CapLens,
          cyclesPerTick \in 1 .. 2 :
          \E ws \in [1 .. n -> WireLens] :
             LET qs == [k \in 1 .. n |-> Packet(p, k, ws[k])]
                 records == EncodeRecordsFrom(qs, 1, maxLen)
             IN  /\ injected = qs
                 /\ capture = [data |-> records \o [j \in 1 .. 16 |-> 0],
                               size |-> Len(records),
                               posWr |-> Len(records),
                               discard |-> FALSE,
                               tickPeriodLatency |-> cyclesPerTick,
                               maxLenCapture |-> maxLen]

SpecCodecRaw == InitCodecRaw /\ [][GetPacketsCall]_vars

\* C34: decoding stops at the sentinel or at the write offset and never
\* decodes a record that starts at or beyond the write offset: a capture
\* into which no bytes were drained decodes to zero packets, and a buffer
\* of k complete records with no sentinel decodes to exactly k packets
C34_StopsAtWriteOffset ==
    pkts.end # "none" =>
        /\ pkts.end = "return"
        /\ Len(pkts.pkts) = Len(injected)
        /\ \A k \in 1 .. Len(pkts.pkts) :
              RecordOffset(capture, k) < capture.posWr

(* ------------------------------ SpecAlign ----------------------------- *)

\* The ring steps once more, with pointers and lengths in 8-byte words (the
\* granularity of the capture stream) instead of 64-byte blocks, so that
\* the alignment of a transfer is visible. Ring and transfer sizes are
\* whole numbers of 64-byte blocks, as configHardware demands.

\* 8-byte words per 64-byte block
WordsPerBlock == 64 \div 8

AlRingSize == RingSize * WordsPerBlock

AlRdTransferSizeMin == RING_BUFF_RD_TRANSFER_SIZE_MIN * WordsPerBlock

AlWrTransferSizeMax == RING_BUFF_WR_TRANSFER_SIZE_MAX * WordsPerBlock

\* assignMemory: a region starts at the base of a bank or half way into it
AlRingBuffAddrs == {0, AlRingSize}

\* the trace bytes a generator may be bound to: trace length times nRepeats,
\* the length a multiple of 64 bytes
AlTraceSizes == { k * WordsPerBlock : k \in 1 .. MaxTraceTotal }

\* writeRingBuff that keeps one word of the ring's end free
AlWrTransferSizeKeepWord(outstanding, wrPtr) ==
    LET t0 == IF outstanding <= AlWrTransferSizeMax
              THEN outstanding
              ELSE AlWrTransferSizeMax
        ringBuffSizeEnd == AlRingSize - wrPtr
    IN  IF ringBuffSizeEnd <= t0 THEN ringBuffSizeEnd - 1 ELSE t0

\* writeRingBuff: transferSize
AlWrTransferSize(outstanding, wrPtr) ==
    LET t0 == IF outstanding <= AlWrTransferSizeMax
              THEN outstanding
              ELSE AlWrTransferSizeMax
        ringBuffSizeEnd == AlRingSize - wrPtr
    IN  IF ringBuffSizeEnd <= t0 THEN ringBuffSizeEnd ELSE t0

\* writeRingBuff: doTransfer
AlWrDoTransfer(rdPtr, wrPtr, transferSize) ==
    IF rdPtr = wrPtr THEN TRUE
    ELSE IF rdPtr < wrPtr
         THEN (rdPtr # 0) \/ (wrPtr + transferSize # AlRingSize)
         ELSE (rdPtr - wrPtr) > transferSize

\* readRingBuff: transferSize
AlRdTransferSize(readAll, rdPtr, wrPtr) ==
    LET ringBuffSizeEnd == AlRingSize - rdPtr
        t0 == IF ringBuffSizeEnd <= AlRdTransferSizeMin
              THEN ringBuffSizeEnd
              ELSE AlRdTransferSizeMin
    IN  IF readAll /\ rdPtr < wrPtr THEN wrPtr - rdPtr
        ELSE IF readAll /\ rdPtr > wrPtr THEN ringBuffSizeEnd
        ELSE t0

\* readRingBuff: doTransfer
AlRdDoTransfer(rdPtr, wrPtr, transferSize) ==
    IF rdPtr = wrPtr THEN FALSE
    ELSE IF rdPtr < wrPtr THEN (wrPtr - rdPtr) >= transferSize
    ELSE TRUE

\* the pointer update of both steps
AlPtrAdvance(ptr, transferSize) ==
    IF ptr + transferSize = AlRingSize THEN 0 ELSE ptr + transferSize

AlignRest ==
    UNCHANGED <<maskVars, errResult, identVars, memVars, codecVars, taskVars,
                lifeVars, traceVars, txVars, rxVars>>

\* Generator.writeRingBuff of a bound generator: one refill step
AlWriteRingBuff ==
    /\ alMode = "tx"
    /\ alLeft > 0
    /\ LET transferSize == AlWrTransferSize(alLeft, alHostPtr)
       IN  /\ AlWrDoTransfer(alDevPtr, alHostPtr, transferSize)
           /\ alDma' = <<"H2C", alBase + alHostPtr, transferSize>>
           /\ alHostPtr' = AlPtrAdvance(alHostPtr, transferSize)
           /\ alLeft' = alLeft - transferSize
    /\ UNCHANGED <<alMode, alBase, alDevStep, alDevPtr>>
    /\ AlignRest

\* the replay core reads the ring up to the host's write pointer and
\* publishes ADDR_RD
AlDevRead ==
    /\ alMode = "tx"
    /\ alDevPtr # alHostPtr
    /\ \E n \in 1 .. alDevStep :
          /\ \A k \in 1 .. n - 1 : (alDevPtr + k) % AlRingSize # alHostPtr
          /\ alDevPtr' = (alDevPtr + n) % AlRingSize
    /\ UNCHANGED <<alMode, alBase, alDevStep, alHostPtr, alLeft, alDma>>
    /\ AlignRest

\* the capture core writes alDevStep words behind its write pointer, never
\* onto the host's read pointer, and publishes ADDR_WR
AlDevWrite ==
    /\ alMode = "rx"
    /\ \A k \in 1 .. alDevStep : (alDevPtr + k) % AlRingSize # alHostPtr
    /\ alDevPtr' = (alDevPtr + alDevStep) % AlRingSize
    /\ UNCHANGED <<alMode, alBase, alDevStep, alHostPtr, alLeft, alDma>>
    /\ AlignRest

\* the receivers are stopped: the capture loop leaves for its final drain
AlRecvStop ==
    /\ alMode = "rx"
    /\ alMode' = "drain"
    /\ UNCHANGED <<alBase, alDevStep, alHostPtr, alDevPtr, alLeft, alDma>>
    /\ AlignRest

\* Receiver.readRingBuff of a capturing receiver: one drain step, periodic
\* while the capture runs and with readAll in the final drain
AlReadRingBuff ==
    /\ alMode \in {"rx", "drain"}
    /\ LET readAll == alMode = "drain"
           transferSize == AlRdTransferSize(readAll, alHostPtr, alDevPtr)
       IN  /\ AlRdDoTransfer(alHostPtr, alDevPtr, transferSize)
           /\ alDma' = <<"C2H", alBase + alHostPtr, transferSize>>
           /\ alHostPtr' = AlPtrAdvance(alHostPtr, transferSize)
    /\ UNCHANGED <<alMode, alBase, alDevStep, alDevPtr, alLeft>>
    /\ AlignRest

\* a replay of a trace whose bytes are a multiple of 64, or a capture; the
\* device moves its pointer by words or by blocks
InitAlign ==
    /\ TraceIdle
    /\ MaskIdle
    /\ errResult = Err("none", -1)
    /\ IdentIdle
    /\ MemIdle
    /\ CodecIdle
    /\ TaskIdle
    /\ LifeIdle
    /\ TxCreated
    /\ RxCreated
    /\ alBase \in AlRingBuffAddrs
    /\ alDevStep \in {1, WordsPerBlock}
    /\ alHostPtr = 0
    /\ alDevPtr = 0
    /\ alDma = << >>
    /\ \/ alMode = "tx" /\ alLeft \in AlTraceSizes
       \/ alMode = "rx" /\ alLeft = 0

NextAlign ==
    \/ AlWriteRingBuff
    \/ AlDevRead
    \/ AlDevWrite
    \/ AlRecvStop
    \/ AlReadRingBuff

SpecAlign == InitAlign /\ [][NextAlign]_vars

\* the transfer starts at a 64-byte aligned device address and its length
\* is a positive multiple of 64 bytes
AlignedDma(d) ==
    /\ d[2] % WordsPerBlock = 0
    /\ d[3] > 0
    /\ d[3] % WordsPerBlock = 0

\* C35: every DMA transfer of a refill or a drain step, read_all drains
\* included, starts at a 64-byte aligned device address and has a length
\* that is a positive multiple of 64 bytes, for traces whose length is a
\* multiple of 64 and rings that are whole numbers of blocks
C35_DmaAligned ==
    alDma # << >> => AlignedDma(alDma)

\* C35 with the given it lacks: the same, when the capture core moves its
\* write pointer by whole 64-byte blocks
C35_DmaAlignedGivenDevice ==
    (alDma # << >> /\ alDevStep = WordsPerBlock) => AlignedDma(alDma)

\* a read_all drain and a refill that ends at the end of the ring have
\* transferred, the device moving by blocks
C35_Witness ==
    /\ alDevStep = WordsPerBlock
    /\ alMode = "drain"
    /\ alDma # << >>
    /\ alDma[3] = WordsPerBlock
    /\ alHostPtr = alDevPtr

(* ----------------------- generator byte accounting -------------------- *)

\* generator g has been configured with a trace bound
GenConfigured(g) == fgPc # "created" /\ trace[g] # NoTrace

\* the counter, the pointer and the ADDR_WR register of generator g agree
GenAccounted(g) ==
    /\ nBytesTransfered[g] >= 0
    /\ nBytesTransfered[g] <= GetSize(trace[g])
    /\ ringBuffWrPtr[g] = nBytesTransfered[g] % RingSize
    /\ regGenAddrWr[g] = ringBuffWrPtr[g]

\* C36: between steps, for every configured generator since its last
\* configure, bytes_transferred is the sum of the writeRingBuff return
\* values (it is 0 after configure, grows by the value a writeRingBuff
\* returns and changes in no other step), it is at most nRepeats times the
\* trace bytes, write_ptr = bytes_transferred mod ring size, and the
\* ADDR_WR register holds the host-side write_ptr
C36_GeneratorAccounting ==
    [][\A g \in Ifaces :
          /\ GenConfigured(g)' => GenAccounted(g)'
          /\ trace[g] # NoTrace =>
                IF fgPc' = "configured"
                THEN nBytesTransfered'[g] = 0
                ELSE IF fgPc \in {"prefill", "refill"} /\ genIdx = g
                        /\ genIdx' = g + 1
                THEN nBytesTransfered'[g] = nBytesTransfered[g] + lastRet'[g]
                ELSE nBytesTransfered'[g] = nBytesTransfered[g]]_vars

\* a generator has written its whole trace, which is longer than the ring,
\* and its write pointer has wrapped
C36_Witness ==
    \E g \in Ifaces :
       /\ GenConfigured(g)
       /\ fgPc = "refill"
       /\ wrXfer = 0
       /\ nBytesTransfered[g] = GetSize(trace[g])
       /\ nBytesTransfered[g] > RingSize
       /\ ringBuffWrPtr[g] = nBytesTransfered[g] - RingSize
       /\ lastRet[g] > 0

(* ------------------------ capture slice bounds ------------------------ *)

\* readRingBuff of receiver i stands before a transfer: the transferSize it
\* passes to Capture.getWriteSlice (0: the step returns 0 without a slice)
DrainAsks(i) ==
    LET readAll == capPc = "drain"
        transferSize == RdTransferSize(readAll, ringBuffRdPtr[i], regRecvAddrWr[i])
    IN  IF /\ capPc \in {"read", "drain"}
           /\ capIdx = i
           /\ rdXfer = 0
           /\ captureEnable[i]
           /\ RdDoTransfer(ringBuffRdPtr[i], regRecvAddrWr[i], transferSize)
        THEN transferSize
        ELSE 0

\* C37: a drain step never asks the Capture for a slice beyond its backing
\* memory: in retained mode write offset + transfer <= host-memory budget
\* after any number of drains, in discard mode every transfer, read_all
\* transfers included, is at most the one scratch region of
\* RING_BUFF_RD_TRANSFER_SIZE_MIN bytes
C37_SliceWithinMemory ==
    \A i \in Ifaces :
       DrainAsks(i) > 0 =>
          IF captureDiscard[i]
          THEN DrainAsks(i) <= RING_BUFF_RD_TRANSFER_SIZE_MIN
          ELSE capPosWr[i] + DrainAsks(i) <= captureHostMemSize[i]

\* C37, retained mode only
C37_RetainedWithinMemory ==
    \A i \in Ifaces :
       (DrainAsks(i) > 0 /\ ~captureDiscard[i]) =>
          capPosWr[i] + DrainAsks(i) <= captureHostMemSize[i]

\* C37, discard mode only
C37_DiscardWithinScratch ==
    \A i \in Ifaces :
       (DrainAsks(i) > 0 /\ captureDiscard[i]) =>
          DrainAsks(i) <= RING_BUFF_RD_TRANSFER_SIZE_MIN

(* ---------------------------- SpecTasksFair --------------------------- *)

\* the steps of capture goroutine t
TaskStep(t) ==
    \/ TaskRecvsStart(t)
    \/ TaskSelectStop(t)
    \/ TaskReadRingBuffs(t)
    \/ TaskReadReturns(t)
    \/ TaskRecvsStop(t)
    \/ TaskReturns(t)

\* the goroutines are scheduled, DMA transfers complete, the drain loops end
\* and a wait on a wait group at zero returns
SpecTasksFair ==
    /\ InitTasks
    /\ [][NextTasks]_vars
    /\ \A t \in Tasks : WF_vars(TaskStep(t))
    /\ WF_vars(StopCaptureTaskReturns)
    /\ WF_vars(ReplayTaskReturns)

\* C38: StopCapture eventually returns: after a StartCapture, and also when
\* no capture task runs (never started, or stopped already)
C38_StopCaptureReturns ==
    (fgTask = "send") ~> (fgTask = "idle")

\* C38 for a StopCapture that finds exactly one capture task running
C38_StopCaptureReturnsAfterStart ==
    (fgTask = "send" /\ Cardinality(AliveTasks) = 1) ~> (fgTask = "idle")

\* C38: StopCapture has returned only when no capture task was left
C38_TerminatedAtReturn ==
    [][(fgTask = "wait" /\ fgTask' = "idle") => AliveTasks = {}]_vars

(* ------------------------- unconfigured engines ----------------------- *)

\* a step in which generator g, with no trace bound, is called or left
\* alone: no register of its replay core is written (START only by the
\* global reset of WriteConfig), its pointer and counter keep their values,
\* no DMA transfer is under way for it and its writeRingBuff returns 0
GenInert(g) ==
    /\ ringBuffWrPtr'[g] = ringBuffWrPtr[g]
    /\ nBytesTransfered'[g] = nBytesTransfered[g]
    /\ regGenAddrWr'[g] = regGenAddrWr[g]
    /\ regGenTraceSize'[g] = regGenTraceSize[g]
    /\ regGenStart'[g] = IF fgPc' = "configured" THEN 0 ELSE regGenStart[g]
    /\ genIdx' = g => wrXfer' = 0
    /\ (fgPc \in {"prefill", "refill"} /\ genIdx = g /\ genIdx' = g + 1) =>
          lastRet'[g] = 0

\* a step in which receiver i, with capture disabled, is called or left
\* alone: no register of its capture core is written (ACTIVE only by the
\* global reset of WriteConfig), its pointer and Capture keep their values,
\* no DMA transfer is under way for it and its readRingBuff returns 0
RecvInert(i) ==
    /\ ringBuffRdPtr'[i] = ringBuffRdPtr[i]
    /\ regRecvAddrRd'[i] = regRecvAddrRd[i]
    /\ capData'[i] = capData[i]
    /\ capPosWr'[i] = capPosWr[i]
    /\ capSize'[i] = capSize[i]
    /\ regRecvActive'[i] = IF fgPc' = "configured" THEN 0 ELSE regRecvActive[i]
    /\ capIdx' = i => rdXfer' = 0
    /\ (capPc = "drain" /\ capIdx = i /\ (capIdx' # i \/ capPc' # "drain")) =>
          nBytesRead'[i] = 0

\* C39: engines that are not configured are inert: for a generator with no
\* trace bound, configHardware, writeRingBuff and start write no register
\* and do no DMA, writeRingBuff returns 0 and pointer and counter are
\* unchanged; for a receiver with capture disabled, configHardware,
\* readRingBuff, start and stop write no register and do no DMA, and
\* readRingBuff returns 0
C39_UnconfiguredInert ==
    [][/\ \A g \in Ifaces :
             (trace[g] = NoTrace /\ trace'[g] = NoTrace) => GenInert(g)
       /\ \A i \in Ifaces :
             (~captureEnable[i] /\ ~captureEnable'[i]) => RecvInert(i)]_vars

\* the final drain has called readRingBuff of a disabled receiver, and the
\* replay has started next to a generator with no trace, while the other
\* interface replays and captures
C39_Witness ==
    /\ \E g \in Ifaces : trace[g] = NoTrace /\ regGenStart[g] = 0
    /\ \E g \in Ifaces : trace[g] # NoTrace /\ regGenStart[g] = 1
    /\ \E i \in Ifaces : ~captureEnable[i] /\ nBytesRead[i] = 0
    /\ \E i \in Ifaces : captureEnable[i] /\ regRecvAddrRd[i] # 0
    /\ capPc = "done"

(* ------------------------------- SpecLife ----------------------------- *)

\* The life of the receivers' Capture objects under the calls of the API in
\* any order. Of the ring only whether it holds data is kept.

LifeRest ==
    UNCHANGED <<maskVars, errResult, identVars, memVars, codecVars, taskVars,
                alignVars, traceVars, txVars, rxVars>>

\* Receiver.EnableCapture
LfEnableCapture(i, enable) ==
    /\ lfFg = "idle"
    /\ lfEnable' = [lfEnable EXCEPT ![i] = enable]
    /\ UNCHANGED <<lfCapture, lfActive, lfData, lfPc, lfIdx, lfFg>>
    /\ LifeRest

\* NetworkTester.WriteConfig: resetHardware deasserts capture and resets the
\* cores, Receiver.configHardware of a receiver with capture enabled makes
\* its Capture anew
LfWriteConfig ==
    /\ lfFg = "idle"
    /\ lfActive' = [i \in Ifaces |-> FALSE]
    /\ lfData' = [i \in Ifaces |-> FALSE]
    /\ lfCapture' = [i \in Ifaces |->
                        IF lfEnable[i] THEN "capture" ELSE lfCapture[i]]
    /\ UNCHANGED <<lfEnable, lfPc, lfIdx, lfFg>>
    /\ LifeRest

\* NetworkTester.FreeHostMemory: Receiver.freeHostMemory of every receiver
LfFreeHostMemory ==
    /\ lfFg = "idle"
    /\ lfCapture' = [i \in Ifaces |-> "nil"]
    /\ UNCHANGED <<lfEnable, lfActive, lfData, lfPc, lfIdx, lfFg>>
    /\ LifeRest

\* NetworkTester.StartCapture, while no capture goroutine runs
LfStartCapture ==
    /\ lfFg = "idle"
    /\ lfPc = "idle"
    /\ lfPc' = "start"
    /\ lfIdx' = 0
    /\ UNCHANGED <<lfEnable, lfCapture, lfActive, lfData, lfFg>>
    /\ LifeRest

\* NetworkTester.StopCapture is called: the send on the stop channel
LfStopCapture ==
    /\ lfFg = "idle"
    /\ lfFg' = "send"
    /\ UNCHANGED <<lfEnable, lfCapture, lfActive, lfData, lfPc, lfIdx>>
    /\ LifeRest

\* NetworkTester.StopCapture: the goroutine has returned, the wait is over
LfStopCaptureReturns ==
    /\ lfFg = "wait"
    /\ lfPc = "idle"
    /\ lfFg' = "idle"
    /\ UNCHANGED <<lfEnable, lfCapture, lfActive, lfData, lfPc, lfIdx>>
    /\ LifeRest

\* the goroutine's loop over nt.recvs goes on, or ends
LfNextRecv(i, after) ==
    IF i + 1 < NumIfaces
    THEN lfIdx' = i + 1 /\ UNCHANGED lfPc
    ELSE lfIdx' = 0 /\ lfPc' = after

\* capture goroutine: Receiver.start of receiver i
LfRecvStart(i) ==
    /\ lfPc = "start"
    /\ lfIdx = i
    /\ lfActive' = [lfActive EXCEPT ![i] = IF lfEnable[i] THEN TRUE ELSE @]
    /\ LfNextRecv(i, "select")
    /\ UNCHANGED <<lfEnable, lfCapture, lfData, lfFg>>
    /\ LifeRest

\* capture goroutine, select: the stop request is received
LfSelectStop ==
    /\ lfPc = "select"
    /\ lfFg = "send"
    /\ lfFg' = "wait"
    /\ lfPc' = "stop"
    /\ lfIdx' = 0
    /\ UNCHANGED <<lfEnable, lfCapture, lfActive, lfData>>
    /\ LifeRest

\* capture goroutine, select: default case
LfSelectDefault ==
    /\ lfPc = "select"
    /\ lfFg # "send"
    /\ lfPc' = "read"
    /\ lfIdx' = 0
    /\ UNCHANGED <<lfEnable, lfCapture, lfActive, lfData, lfFg>>
    /\ LifeRest

\* capture goroutine: Receiver.stop of receiver i
LfRecvStop(i) ==
    /\ lfPc = "stop"
    /\ lfIdx = i
    /\ lfActive' = [lfActive EXCEPT ![i] = IF lfEnable[i] THEN FALSE ELSE @]
    /\ LfNextRecv(i, "drain")
    /\ UNCHANGED <<lfEnable, lfCapture, lfData, lfFg>>
    /\ LifeRest

\* capture goroutine: Receiver.readRingBuff of receiver i. It returns 0 for
\* a disabled receiver and for an empty ring. With data in the ring the
\* periodic step may find less than it wants (transfer FALSE), the read_all
\* step transfers; a transfer calls getWriteSlice on recv.capture, which
\* panics on nil (the process ends), and leaves data in the ring or not
\* (more)
LfReadRingBuff(i, transfer, more) ==
    /\ lfPc \in {"read", "drain"}
    /\ lfIdx = i
    /\ IF ~lfEnable[i] \/ ~lfData[i] \/ (lfPc = "read" /\ ~transfer)
       THEN /\ LfNextRecv(i, IF lfPc = "read" THEN "select" ELSE "idle")
            /\ UNCHANGED <<lfData, lfFg>>
       ELSE IF lfCapture[i] = "nil"
       THEN /\ lfPc' = "panic"
            /\ lfFg' = "panic"
            /\ UNCHANGED <<lfIdx, lfData>>
       ELSE /\ lfData' = [lfData EXCEPT ![i] = more]
            /\ IF lfPc = "read"
               THEN LfNextRecv(i, "select")
               ELSE UNCHANGED <<lfPc, lfIdx>>
            /\ UNCHANGED lfFg
    /\ UNCHANGED <<lfEnable, lfCapture, lfActive>>
    /\ LifeRest

\* the capture core of receiver i, active, writes a packet to its ring
LfDevWrite(i) ==
    /\ lfActive[i]
    /\ ~lfData[i]
    /\ lfPc # "panic"
    /\ lfData' = [lfData EXCEPT ![i] = TRUE]
    /\ UNCHANGED <<lfEnable, lfCapture, lfActive, lfPc, lfIdx, lfFg>>
    /\ LifeRest

InitLife ==
    /\ TraceIdle
    /\ MaskIdle
    /\ errResult = Err("none", -1)
    /\ IdentIdle
    /\ MemIdle
    /\ CodecIdle
    /\ TaskIdle
    /\ AlignIdle
    /\ LifeIdle
    /\ TxCreated
    /\ RxCreated

NextLife ==
    \/ \E i \in Ifaces, b \in BOOLEAN : LfEnableCapture(i, b)
    \/ LfWriteConfig
    \/ LfFreeHostMemory
    \/ LfStartCapture
    \/ LfStopCapture
    \/ LfStopCaptureReturns
    \/ \E i \in Ifaces : LfRecvStart(i)
    \/ LfSelectStop
    \/ LfSelectDefault
    \/ \E i \in Ifaces : LfRecvStop(i)
    \/ \E i \in Ifaces, transfer, more \in BOOLEAN : LfReadRingBuff(i, transfer, more)
    \/ \E i \in Ifaces : LfDevWrite(i)

SpecLife == InitLife /\ [][NextLife]_vars

\* C40: whenever a drain step runs on a capture-enabled receiver a Capture
\* exists for it: for any sequence of EnableCapture, WriteConfig,
\* FreeHostMemory, StartCapture and StopCapture calls, readRingBuff never
\* dereferences a missing Capture
C40_CaptureExistsAtDrain ==
    \A i \in Ifaces :
       (lfPc \in {"read", "drain"} /\ lfIdx = i /\ lfEnable[i] /\ lfData[i])
          => lfCapture[i] = "capture"

=========================================================================
